---------------------------- MODULE Spec2Model ----------------------------
(***************************************************************************)
(* A model of hl-prime: the market registry, the router's single-market    *)
(* quote path, the book aggregator's fetch path, the collateral manager    *)
(* and the executor.                                                        *)
(*                                                                          *)
(* Numbers.  Prices and sizes are venue decimals; the model draws them     *)
(* from integers (one unit = one tick / one lot) and keeps every derived   *)
(* quantity exact as a fraction [num, den], so that comparisons of scores  *)
(* are the comparisons the code makes on the same inputs.  Funding rates   *)
(* are drawn in units of 1/10000 (one unit = 1 bp per period).             *)
(***************************************************************************)
EXTENDS Integers, Sequences, FiniteSets, TLC

\* ------------------------------------------------------------- bounds
MaxMarkets == 2     \* markets registered for the quoted asset
MaxLevels == 2      \* levels on the walked side of a venue book
MaxSz == 2          \* size quoted at one level
MaxSize == 3        \* size of the order being quoted
MaxBookCalls == 3   \* l2Book calls made on one provider
MaxTicks == 2       \* advances of the provider's clock

\* ---------------------------------------------------- program constants
DEFAULT_SWAP_COST_BPS == 50
BPS == 10000
FUNDING_PERIODS == 3
DEFAULT_L2_BOOK_CACHE_TTL_MS == 250

VARIABLES
    groups,      \* MarketRegistry.groups: the published index, a sequence
                 \* of groups in Map insertion order
    disc,        \* per discover() run: its position and its locals
    lastData,    \* what the venue answered to the most recently completed
                 \* successful discover(), and whether that repeated the
                 \* answer before it (history variable)
    lastRead,    \* the registry read being answered, with lastData as of
                 \* that read
    qpc,         \* position of the router / aggregator operation
    qop,         \* "quote" | "quoteSplit" | "aggregate"
    qside, qsize, qcoll,   \* the operation's arguments
    qmarkets,    \* registry.getMarkets(baseAsset) as read by the operation
    qfetch,      \* per market: the state of its l2Book fetch
    qsettled,    \* the markets' positions in the order their fetches settled
    builder,     \* Executor.builder: the configured builder or NoBuilder
    builderApproved,   \* Executor's one-shot builder-fee flag
    calls,       \* per execute / executeSplit call: position, locals, trace
    connected,   \* HyperliquidPrime.connected
    walletAddress,   \* HyperliquidPrime.walletAddress, or NoWallet
    life,        \* the lifecycle call that last completed successfully
                 \* (history variable)
    lifecycle,   \* positions of the connect() and disconnect() in flight
    fop,         \* the facade operation in flight: position, locals, log
    unit,        \* a direct call of simulate / score / optimize
    l2BookCache,     \* NktkasProvider.l2BookCache: key -> {value, expiresAt}
    l2BookInFlight,  \* NktkasProvider.l2BookInFlight: key -> request
    requests,    \* the upstream book requests the provider has issued
    bookCalls,   \* the l2Book calls made on the provider
    closing,     \* position of the provider's disconnect(), and whether
                 \* one has completed (history variable)
    now          \* Date.now()

rvars == <<disc, lastData, lastRead>>
qvars == <<qpc, qop, qside, qsize, qcoll, qmarkets, qfetch, qsettled>>
evars == <<builder, builderApproved, calls>>
fvars == <<connected, walletAddress, life, lifecycle, fop>>
pvars == <<l2BookCache, l2BookInFlight, requests, bookCalls, closing, now>>
vars == <<groups, rvars, qvars, evars, fvars, unit, pvars>>

\* ------------------------------------------------------------ helpers
Min(a, b) == IF a <= b THEN a ELSE b
Max(a, b) == IF a >= b THEN a ELSE b
Abs(a) == IF a < 0 THEN -a ELSE a

RECURSIVE SumSz(_)
SumSz(levels) ==
    IF levels = <<>> THEN 0 ELSE Head(levels).sz + SumSz(Tail(levels))

NoBook == [bids |-> <<>>, asks |-> <<>>]

\* ------------------------------------------- states of the idle parts
NoData ==
    [tokens |-> {}, dexs |-> <<>>, allMetas |-> <<>>, ctxResults |-> <<>>,
     repeat |-> FALSE]
NoRead == [op |-> "none", arg |-> "", result |-> <<>>, data |-> NoData]
IdleRun == [pc |-> "idle", tokens |-> {}, allMetas |-> <<>>]

\* No discover() run, nothing read.
RIdle ==
    /\ disc = <<>>
    /\ lastData = NoData
    /\ lastRead = NoRead

NoBuilder == [address |-> "none", feeBps |-> 0]

\* No executor call.
EIdle ==
    /\ builder = NoBuilder
    /\ builderApproved = FALSE
    /\ calls = <<>>

NoWallet == "none"
NoSpot == [st |-> "none", balances |-> <<>>]
NoOp ==
    [pc |-> "idle", op |-> "none", asset |-> "", side |-> "buy", size |-> 0,
     invokedWhile |-> "none", error |-> "", log |-> <<>>, warnings |-> <<>>,
     spot |-> NoSpot, reported |-> <<>>, toClose |-> <<>>, k |-> 0,
     orders |-> <<>>, result |-> [kind |-> "none"]]
NoLifecycle == [connect |-> "idle", disconnect |-> "idle", lastConnect |-> "none"]

\* A facade that was constructed and never used.
FIdle ==
    /\ connected = FALSE
    /\ walletAddress = NoWallet
    /\ life = "none"
    /\ lifecycle = NoLifecycle
    /\ fop = NoOp

NoUnit == [fn |-> "none"]

\* No direct call of a router function.
UIdle == unit = NoUnit

EmptyMap == <<>>
NotClosing == [pc |-> "idle", cleared |-> FALSE]

\* A provider that was constructed and never used.
PIdle ==
    /\ l2BookCache = EmptyMap
    /\ l2BookInFlight = EmptyMap
    /\ requests = <<>>
    /\ bookCalls = <<>>
    /\ closing = NotClosing
    /\ now = 0

\* ------------------------------------------------- FillSimulator
\* getMidPrice, kept as twice the mid so that it stays an integer.
GetMidPrice2(book) ==
    LET bestBid == IF Len(book.bids) > 0 THEN book.bids[1].px ELSE 0
        bestAsk == IF Len(book.asks) > 0 THEN book.asks[1].px ELSE 0
    IN  IF bestBid = 0 /\ bestAsk = 0 THEN 0
        ELSE IF bestBid = 0 THEN 2 * bestAsk
        ELSE IF bestAsk = 0 THEN 2 * bestBid
        ELSE bestBid + bestAsk

\* The walk of simulate(): [remaining, totalCost] after the levels.
\* Mutant: every level walked is taken whole.
RECURSIVE WalkWholeLevels(_, _, _)
WalkWholeLevels(levels, remaining, totalCost) ==
    IF levels = <<>> THEN [remaining |-> remaining, totalCost |-> totalCost]
    ELSE LET fillQty == Head(levels).sz
             cost == totalCost + fillQty * Head(levels).px
             rem == remaining - fillQty
         IN  IF rem <= 0 THEN [remaining |-> rem, totalCost |-> cost]
             ELSE WalkWholeLevels(Tail(levels), rem, cost)

RECURSIVE Walk(_, _, _)
Walk(levels, remaining, totalCost) ==
    IF levels = <<>> THEN [remaining |-> remaining, totalCost |-> totalCost]
    ELSE LET fillQty == Min(remaining, Head(levels).sz)
             cost == totalCost + fillQty * Head(levels).px
             rem == remaining - fillQty
         IN  IF rem <= 0 THEN [remaining |-> rem, totalCost |-> cost]
             ELSE Walk(Tail(levels), rem, cost)

WalkedSide(book, side) == IF side = "buy" THEN book.asks ELSE book.bids

\* simulate() after the walk: lines 31-38, the result of a full fill.
SimulationOf(w, book, size) ==
    LET mid2 == GetMidPrice2(book)
    IN  [ok |-> TRUE,
         totalCost |-> w.totalCost,
         filledSize |-> size,
         mid2 |-> mid2,
         impact |-> IF mid2 > 0
                    THEN [num |-> Abs(2 * w.totalCost - size * mid2) * BPS,
                          den |-> size * mid2]
                    ELSE [num |-> 0, den |-> 1]]

NoSimulation ==
    [ok |-> FALSE, totalCost |-> 0, filledSize |-> 0, mid2 |-> 0,
     impact |-> [num |-> 0, den |-> 1]]

\* Mutant: the depth check dropped.
SimulateUnchecked(book, side, size) ==
    SimulationOf(Walk(WalkedSide(book, side), size, 0), book, size)

\* simulate(): null (NoSimulation) on insufficient depth.
Simulate(book, side, size) ==
    LET w == Walk(WalkedSide(book, side), size, 0)
    IN  IF w.remaining > 0 THEN NoSimulation
        ELSE SimulationOf(w, book, size)

\* ------------------------------------------------- MarketScorer
\* totalScore = priceImpact - fundingScore + collateralPenalty, a fraction
\* over the price impact's denominator.
\* The optional swapCostBps argument: <<>> when it is not supplied
\* (undefined), <<n>> when it is.
Undefined == <<>>

\* Mutant: a swap cost the caller supplies is ignored.
CollateralPenaltyIgnoringSupplied(market, userCollateral, swapCostBps) ==
    IF market.collateral \in userCollateral THEN 0 ELSE DEFAULT_SWAP_COST_BPS

\* hasCollateral ? 0 : (swapCostBps ?? DEFAULT_SWAP_COST_BPS)
CollateralPenaltyWith(market, userCollateral, swapCostBps) ==
    IF market.collateral \in userCollateral THEN 0
    ELSE IF swapCostBps = Undefined THEN DEFAULT_SWAP_COST_BPS
    ELSE swapCostBps[1]

\* score(simulation, market, side, userCollateral, swapCostBps?)
ScoreWith(sim, market, side, userCollateral, swapCostBps) ==
    LET fundingBenefit == IF side = "buy" THEN -market.funding
                          ELSE market.funding
        \* fundingBenefit * 10000 * 3 bps; the rate is funding/10000
        fundingScore == fundingBenefit * FUNDING_PERIODS
        penalty == CollateralPenaltyWith(market, userCollateral, swapCostBps)
    IN  [coin |-> market.coin,
         inf |-> FALSE,
         num |-> sim.impact.num + (penalty - fundingScore) * sim.impact.den,
         den |-> sim.impact.den,
         collateralMatch |-> market.collateral \in userCollateral]

\* The router's call: no swap cost is passed.
Score(sim, market, side, userCollateral) ==
    ScoreWith(sim, market, side, userCollateral, Undefined)

InfiniteScore(market) ==
    [coin |-> market.coin, inf |-> TRUE, num |-> 0, den |-> 1,
     collateralMatch |-> FALSE]

\* Mutant: the comparator reversed (b.totalScore - a.totalScore).
ComparePositiveReversed(a, b) ==
    IF a.inf /\ b.inf THEN FALSE
    ELSE IF a.inf THEN FALSE
    ELSE IF b.inf THEN TRUE
    ELSE a.num * b.den < b.num * a.den

\* The comparator (a, b) => a.totalScore - b.totalScore says "a after b"
\* when it is positive; Infinity - Infinity is NaN, which sort reads as 0.
ComparePositive(a, b) ==
    IF a.inf /\ b.inf THEN FALSE
    ELSE IF a.inf THEN TRUE
    ELSE IF b.inf THEN FALSE
    ELSE a.num * b.den > b.num * a.den

\* Array.prototype.sort is stable: insert x after every element it does
\* not precede.
RECURSIVE InsertSorted(_, _)
InsertSorted(sorted, x) ==
    IF sorted = <<>> THEN <<x>>
    ELSE IF ComparePositive(Head(sorted), x)
         THEN <<x>> \o sorted
         ELSE <<Head(sorted)>> \o InsertSorted(Tail(sorted), x)

RECURSIVE SortScores(_)
SortScores(s) ==
    IF s = <<>> THEN <<>>
    ELSE InsertSorted(SortScores(SubSeq(s, 1, Len(s) - 1)), s[Len(s)])


\* ------------------------------------------------- MarketRegistry reads
\* groups.get(baseAsset.toUpperCase())
ToUpperCase(s) ==
    CASE s = "tsla" -> "TSLA"
      [] s = "eth" -> "ETH"
      [] s = "xyz:TSLA" -> "XYZ:TSLA"
      [] s = "xyz:ETH" -> "XYZ:ETH"
      [] OTHER -> s

RECURSIVE FindGroup(_, _)
FindGroup(index, key) ==
    IF index = <<>> THEN <<>>
    ELSE IF Head(index).baseAsset = key THEN <<Head(index)>>
    ELSE FindGroup(Tail(index), key)

GetGroup(index, baseAsset) == FindGroup(index, ToUpperCase(baseAsset))

GetMarkets(index, baseAsset) ==
    LET g == GetGroup(index, baseAsset)
    IN  IF g = <<>> THEN <<>> ELSE g[1].markets

GetAllGroups(index) == index

GetGroupsWithAlternatives(index) ==
    SelectSeq(index, LAMBDA g : g.hasAlternatives)

\* ------------------------------------------------- inputs of the router
\* The markets an index can hold for TSLA: one per deployer, with the
\* deployer's collateral and the market's funding rate (units of 1/10000).
CoinNames == <<"xyz:TSLA", "flx:TSLA", "km:TSLA", "cash:TSLA">>
DexNames == <<"xyz", "flx", "km", "cash">>
Collaterals == <<"USDC", "USDH", "USDH", "USDT0">>
FundingProfiles == {<<0, 1, -1, 2>>, <<1, 0, 0, -1>>}

TslaMarket(i, funding) ==
    [baseAsset |-> "TSLA", coin |-> CoinNames[i],
     assetIndex |-> 100000 + i * 10000, dexName |-> DexNames[i],
     collateral |-> Collaterals[i], isNative |-> FALSE,
     funding |-> funding[i]]

TslaIndex(n, funding) ==
    << [baseAsset |-> "TSLA",
        markets |-> [i \in 1..n |-> TslaMarket(i, funding)],
        hasAlternatives |-> n > 1] >>

QuoteIndexes ==
    {TslaIndex(n, f) : n \in 1..MaxMarkets, f \in FundingProfiles}

QuoteAssets == {"tsla", "ETH"}
Sides == {"buy", "sell"}
UserCollaterals == {{"USDC"}, {"USDC", "USDH"}}

\* Venue books: the walked side has up to MaxLevels levels at strictly
\* improving-to-worsening prices; the other side is empty or one level.
ActivePrices(side) == IF side = "buy" THEN {100, 101} ELSE {99, 98}
PassivePrice(side) == IF side = "buy" THEN 99 ELSE 100

LevelsOf(side) == [px : ActivePrices(side), sz : 1..MaxSz]

Ordered(side, s) ==
    \A i \in 1..(Len(s) - 1) :
        IF side = "buy" THEN s[i].px < s[i + 1].px ELSE s[i].px > s[i + 1].px

ActiveSides(side) ==
    UNION {{s \in [1..n -> LevelsOf(side)] : Ordered(side, s)} : n \in 0..MaxLevels}

PassiveSides(side) == {<<>>, <<[px |-> PassivePrice(side), sz |-> 1]>>}

BooksFor(side) ==
    {IF side = "buy" THEN [bids |-> p, asks |-> a] ELSE [bids |-> a, asks |-> p] :
        a \in ActiveSides(side), p \in PassiveSides(side)}


\* ------------------------------------------------- BookAggregator
\* mergeLevels: the price map in insertion order, then sorted, then cut.
\* Mutant: a level merged into an existing price adds its size and no source.
RECURSIVE AddToPriceMapDroppingSource(_, _, _)
AddToPriceMapDroppingSource(entries, coin, level) ==
    IF entries = <<>>
    THEN << [px |-> level.px, sz |-> level.sz,
             sources |-> << [coin |-> coin, sz |-> level.sz] >>] >>
    ELSE IF Head(entries).px = level.px
    THEN << [px |-> level.px, sz |-> Head(entries).sz + level.sz,
             sources |-> Head(entries).sources] >>
         \o Tail(entries)
    ELSE <<Head(entries)>> \o AddToPriceMapDroppingSource(Tail(entries), coin, level)

RECURSIVE AddToPriceMap(_, _, _)
AddToPriceMap(entries, coin, level) ==
    IF entries = <<>>
    THEN << [px |-> level.px, sz |-> level.sz,
             sources |-> << [coin |-> coin, sz |-> level.sz] >>] >>
    ELSE IF Head(entries).px = level.px
    THEN << [px |-> level.px, sz |-> Head(entries).sz + level.sz,
             sources |-> Append(Head(entries).sources,
                                [coin |-> coin, sz |-> level.sz])] >>
         \o Tail(entries)
    ELSE <<Head(entries)>> \o AddToPriceMap(Tail(entries), coin, level)

RECURSIVE AddLevels(_, _, _)
AddLevels(entries, coin, levels) ==
    IF levels = <<>> THEN entries
    ELSE AddLevels(AddToPriceMap(entries, coin, Head(levels)), coin, Tail(levels))

RECURSIVE BuildPriceMap(_, _)
BuildPriceMap(entries, sources) ==
    IF sources = <<>> THEN entries
    ELSE BuildPriceMap(AddLevels(entries, Head(sources).coin, Head(sources).levels),
                       Tail(sources))

\* Mutant: the sort leaves each level where it was pushed.
InsertLevelAppended(sorted, x, sort) == Append(sorted, x)

RECURSIVE InsertLevel(_, _, _)
InsertLevel(sorted, x, sort) ==
    IF sorted = <<>> THEN <<x>>
    ELSE IF (IF sort = "desc" THEN x.px > Head(sorted).px ELSE x.px < Head(sorted).px)
         THEN <<x>> \o sorted
         ELSE <<Head(sorted)>> \o InsertLevel(Tail(sorted), x, sort)

\* Mutant: the merged levels stay in the order the price map got them.
SortLevelsSkipped(s, sort) == s

RECURSIVE SortLevels(_, _)
SortLevels(s, sort) ==
    IF s = <<>> THEN <<>>
    ELSE InsertLevel(SortLevels(SubSeq(s, 1, Len(s) - 1), sort), s[Len(s)], sort)

\* Mutant: the cut stops only once the depth is exceeded.
RECURSIVE TrimPastDepth(_, _, _)
TrimPastDepth(merged, cumulative, targetDepth) ==
    IF merged = <<>> THEN <<>>
    ELSE IF cumulative + Head(merged).sz > targetDepth THEN <<Head(merged)>>
    ELSE <<Head(merged)>>
         \o TrimPastDepth(Tail(merged), cumulative + Head(merged).sz, targetDepth)

RECURSIVE Trim(_, _, _)
Trim(merged, cumulative, targetDepth) ==
    IF merged = <<>> THEN <<>>
    ELSE IF cumulative + Head(merged).sz >= targetDepth THEN <<Head(merged)>>
    ELSE <<Head(merged)>> \o Trim(Tail(merged), cumulative + Head(merged).sz, targetDepth)

\* targetDepth 0 stands for undefined: both return the whole merged side.
MergeLevels(sources, sort, targetDepth) ==
    LET merged == SortLevels(BuildPriceMap(<<>>, sources), sort)
    IN  IF targetDepth <= 0 THEN merged ELSE Trim(merged, 0, targetDepth)

\* Mutant: no timer is set.
TimerNeverArmed(f) == FALSE

\* withTimeout: the timer is armed for as long as the fetch is pending.
TimerArmed(f) == f.st = "pending"

\* Mutant: a rejected fetch is kept, with an empty book.
FulfilledOrNot(markets, fetch) ==
    [i \in 1..Len(markets) |->
        [market |-> markets[i], coin |-> markets[i].coin, book |-> fetch[i].book,
         bids |-> fetch[i].book.bids, asks |-> fetch[i].book.asks]]

\* Mutant: the fulfilled fetches are collected in the order they settled.
FulfilledAsSettled(markets, fetch) ==
    LET done == SelectSeq(qsettled, LAMBDA i : i <= Len(fetch) /\ fetch[i].st = "ok")
    IN  [k \in 1..Len(done) |->
            [market |-> markets[done[k]], coin |-> markets[done[k]].coin,
             book |-> fetch[done[k]].book,
             bids |-> fetch[done[k]].book.bids, asks |-> fetch[done[k]].book.asks]]

\* fetchMarketBooks / fetchSnapshots: the fulfilled fetches, in market order.
RECURSIVE Fulfilled(_, _)
Fulfilled(markets, fetch) ==
    IF markets = <<>> THEN <<>>
    ELSE (IF Head(fetch).st = "ok"
          THEN << [market |-> Head(markets), coin |-> Head(markets).coin,
                   book |-> Head(fetch).book,
                   bids |-> Head(fetch).book.bids,
                   asks |-> Head(fetch).book.asks] >>
          ELSE <<>>)
         \o Fulfilled(Tail(markets), Tail(fetch))

RECURSIVE FailedCoins(_, _)
FailedCoins(markets, fetch) ==
    IF markets = <<>> THEN <<>>
    ELSE (IF Head(fetch).st = "ok" THEN <<>> ELSE <<Head(markets).coin>>)
         \o FailedCoins(Tail(markets), Tail(fetch))

EmptyAggregatedBook ==
    [kind |-> "book", bids |-> <<>>, asks |-> <<>>, marketBooks |-> <<>>]

SourcesOf(books, which) ==
    [i \in 1..Len(books) |->
        [coin |-> books[i].coin,
         levels |-> IF which = "bids" THEN books[i].bids ELSE books[i].asks]]

MarketBooks(books) ==
    [i \in 1..Len(books) |->
        [coin |-> books[i].coin, bids |-> books[i].bids, asks |-> books[i].asks]]

\* aggregate() after the fetches have settled.
Aggregate(markets, fetch) ==
    LET books == Fulfilled(markets, fetch)
    IN  IF Len(markets) = 0 \/ Len(books) = 0 THEN EmptyAggregatedBook
        ELSE [kind |-> "book",
              bids |-> MergeLevels(SourcesOf(books, "bids"), "desc", 0),
              asks |-> MergeLevels(SourcesOf(books, "asks"), "asc", 0),
              marketBooks |-> MarketBooks(books)]

\* aggregateForOrder() after the fetches have settled.
AggregateForOrder(markets, fetch, side, size) ==
    LET books == Fulfilled(markets, fetch)
        isBuy == side = "buy"
        targetDepth == Max(0, size)
    IN  IF Len(markets) = 0 \/ Len(books) = 0 THEN EmptyAggregatedBook
        ELSE [kind |-> "book",
              bids |-> MergeLevels(SourcesOf(books, "bids"), "desc",
                                   IF isBuy THEN 0 ELSE targetDepth),
              asks |-> MergeLevels(SourcesOf(books, "asks"), "asc",
                                   IF isBuy THEN targetDepth ELSE 0),
              marketBooks |-> MarketBooks(books)]


\* ------------------------------------------------- Router
PartialWarning(k, n) == [w |-> "Partial market data", k |-> k, n |-> n]
CollateralWarning == [w |-> "Collateral estimated during executeSplit", k |-> 0, n |-> 0]

Coins(markets) == [i \in 1..Len(markets) |-> markets[i].coin]

\* Mutant: the warning is dropped.
SnapshotWarningsNone(snapshots, failedMarkets, markets) == <<>>

\* fetchSnapshots' warnings.
SnapshotWarnings(snapshots, failedMarkets, markets) ==
    IF Len(failedMarkets) > 0
    THEN <<PartialWarning(Len(snapshots), Len(markets))>>
    ELSE <<>>

\* The simulate + score loop of quote().
ScoreSnapshots(snapshots, side, size, userCollateral) ==
    [i \in 1..Len(snapshots) |->
        LET sim == Simulate(snapshots[i].book, side, size)
        IN  IF ~sim.ok THEN InfiniteScore(snapshots[i].market)
            ELSE Score(sim, snapshots[i].market, side, userCollateral)]

RECURSIVE FindSnapshot(_, _)
FindSnapshot(snapshots, coin) ==
    IF snapshots = <<>> THEN <<>>
    ELSE IF Head(snapshots).coin = coin THEN <<Head(snapshots)>>
    ELSE FindSnapshot(Tail(snapshots), coin)

ErrorResult(name, coins) == [kind |-> "error", error |-> name, coins |-> coins]

\* quote() from the registry read on; the fetches have settled.
RouterQuote(markets, fetch, side, size, userCollateral) ==
    IF Len(markets) = 0 THEN ErrorResult("NoMarkets", <<>>)
    ELSE
    LET snapshots == Fulfilled(markets, fetch)
        failedMarkets == FailedCoins(markets, fetch)
        warnings == SnapshotWarnings(snapshots, failedMarkets, markets)
    IN  IF Len(snapshots) = 0
        THEN ErrorResult("MarketDataUnavailable",
                         IF Len(failedMarkets) > 0 THEN failedMarkets
                         ELSE Coins(markets))
        ELSE
        LET scored == SortScores(ScoreSnapshots(snapshots, side, size, userCollateral))
            best == scored[1]
        IN  IF best.inf THEN ErrorResult("InsufficientLiquidity", <<>>)
            ELSE
            LET found == FindSnapshot(snapshots, best.coin)
            IN  IF found = <<>>
                THEN ErrorResult("MarketDataUnavailable", <<best.coin>>)
                ELSE
                LET sim == Simulate(found[1].book, side, size)
                IN  [kind |-> "quote",
                     selectedMarket |-> best.coin,
                     estimatedAvgPrice |-> [num |-> sim.totalCost, den |-> size],
                     estimatedPriceImpact |-> sim.impact,
                     alternativesConsidered |-> scored,
                     warnings |-> warnings,
                     plan |-> [coin |-> best.coin, side |-> side, size |-> size,
                               tif |-> "Ioc"]]

\* optimize(): what is left unfilled after the greedy walk of the merged
\* side (each level's fill is split over its sources and sums to the fill).
OptimizeRemaining(levels, size) == size - Min(size, SumSz(levels))

\* optimize() returns null: no levels, or remaining > size * 0.001.
OptimizeIsNull(levels, size) ==
    \/ Len(levels) = 0
    \/ OptimizeRemaining(levels, size) * 1000 > size

\* quoteSplit() from the registry read on; the fetches have settled.
RouterQuoteSplit(markets, fetch, side, size, userCollateral) ==
    IF Len(markets) = 0 THEN ErrorResult("NoMarkets", <<>>)
    ELSE
    LET aggBook == AggregateForOrder(markets, fetch, side, size)
        k == Len(aggBook.marketBooks)
        partial == IF k < Len(markets)
                   THEN <<PartialWarning(k, Len(markets))>> ELSE <<>>
        levels == IF side = "buy" THEN aggBook.asks ELSE aggBook.bids
    IN  IF k = 0 THEN ErrorResult("MarketDataUnavailable", Coins(markets))
        ELSE IF OptimizeIsNull(levels, size)
        THEN ErrorResult("InsufficientLiquidity", <<>>)
        ELSE [kind |-> "splitQuote",
              warnings |-> partial \o <<CollateralWarning>>,
              marketBooks |-> aggBook.marketBooks,
              collateralPlan |-> [requirements |-> <<>>, swapsNeeded |-> FALSE,
                                  abstractionEnabled |-> FALSE]]

\* ------------------------------------------------- router / aggregator steps
\* What the operation returns or throws once the fetches have settled: the
\* synchronous rest of the call, a function of what it read and fetched.
OpResult(op, markets, fetch, side, size, coll) ==
    CASE op = "quote" -> RouterQuote(markets, fetch, side, size, coll)
      [] op = "quoteSplit" -> RouterQuoteSplit(markets, fetch, side, size, coll)
      [] OTHER -> Aggregate(markets, fetch)

Pending == [st |-> "pending", book |-> NoBook]
Settled(fetch) == \A i \in 1..Len(fetch) : fetch[i].st # "pending"

\* The call up to its first await: the registry read and the fetches issued.
RouterStart(op, asset, side, size, coll) ==
    /\ qpc = "idle"
    /\ qop' = op
    /\ qside' = side
    /\ qsize' = size
    /\ qcoll' = coll
    /\ qmarkets' = GetMarkets(groups, asset)
    /\ qfetch' = [i \in 1..Len(GetMarkets(groups, asset)) |-> Pending]
    /\ qsettled' = <<>>
    /\ qpc' = IF Len(GetMarkets(groups, asset)) = 0 THEN "done" ELSE "fetching"

OpStart(op, asset, side, size, coll) ==
    /\ RouterStart(op, asset, side, size, coll)
    /\ UNCHANGED <<groups, rvars, evars, fvars, unit, pvars>>

\* provider.l2Book(coin) resolves with a book.
FetchOk(i, book) ==
    /\ qpc = "fetching"
    /\ qfetch[i].st = "pending"
    /\ qfetch' = [qfetch EXCEPT ![i] = [st |-> "ok", book |-> book]]
    /\ qsettled' = Append(qsettled, i)
    /\ UNCHANGED <<groups, rvars, evars, fvars, unit, qpc, qop, qside, qsize, qcoll, qmarkets, pvars>>

\* provider.l2Book(coin) rejects.
FetchFail(i) ==
    /\ qpc = "fetching"
    /\ qfetch[i].st = "pending"
    /\ qfetch' = [qfetch EXCEPT ![i] = [st |-> "failed", book |-> NoBook]]
    /\ qsettled' = Append(qsettled, i)
    /\ UNCHANGED <<groups, rvars, evars, fvars, unit, qpc, qop, qside, qsize, qcoll, qmarkets, pvars>>

\* withTimeout's timer fires before the fetch has settled.
FetchTimeout(i) ==
    /\ qpc = "fetching"
    /\ TimerArmed(qfetch[i])
    /\ qfetch[i].st = "pending"
    /\ qfetch' = [qfetch EXCEPT ![i] = [st |-> "timeout", book |-> NoBook]]
    /\ qsettled' = Append(qsettled, i)
    /\ UNCHANGED <<groups, rvars, evars, fvars, unit, qpc, qop, qside, qsize, qcoll, qmarkets, pvars>>

\* Promise.allSettled resolves; the rest of the call runs to its return
\* (OpResult of the state reached).
OpFinish ==
    /\ qpc = "fetching"
    /\ Settled(qfetch)
    /\ qpc' = "done"
    /\ UNCHANGED <<groups, rvars, evars, fvars, unit, qop, qside, qsize, qcoll, qmarkets, qfetch, qsettled, pvars>>

\* The caller takes the result; the next call may start.
RouterReset ==
    /\ qpc = "done"
    /\ qpc' = "idle"
    /\ qop' = "none"
    /\ qside' = "buy"
    /\ qsize' = 0
    /\ qcoll' = {}
    /\ qmarkets' = <<>>
    /\ qfetch' = <<>>
    /\ qsettled' = <<>>

OpReturn ==
    /\ RouterReset
    /\ UNCHANGED <<groups, rvars, evars, fvars, unit, pvars>>

QIdle ==
    /\ qpc = "idle"
    /\ qop = "none"
    /\ qside = "buy"
    /\ qsize = 0
    /\ qcoll = {}
    /\ qmarkets = <<>>
    /\ qfetch = <<>>
    /\ qsettled = <<>>

InitQuote ==
    /\ groups \in QuoteIndexes
    /\ RIdle
    /\ QIdle
    /\ EIdle
    /\ FIdle
    /\ UIdle
    /\ PIdle

QuoteStart ==
    \E asset \in QuoteAssets, side \in Sides, size \in 1..MaxSize,
       coll \in UserCollaterals :
        OpStart("quote", asset, side, size, coll)

QuoteSplitStart ==
    \E asset \in QuoteAssets, side \in Sides, size \in 1..MaxSize,
       coll \in UserCollaterals :
        OpStart("quoteSplit", asset, side, size, coll)

AggregateStart ==
    \E asset \in QuoteAssets : OpStart("aggregate", asset, "buy", 0, {})

\* aggregate() has no side: its books are deep on either side.
VenueBooks ==
    IF qop = "aggregate" THEN BooksFor("buy") \cup BooksFor("sell")
    ELSE BooksFor(qside)

VenueBookOk == \E i \in 1..Len(qfetch) : \E book \in VenueBooks : FetchOk(i, book)
VenueBookFail == \E i \in 1..Len(qfetch) : FetchFail(i)
BookTimeout == \E i \in 1..Len(qfetch) : FetchTimeout(i)

NextQuote ==
    \/ QuoteStart
    \/ QuoteSplitStart
    \/ AggregateStart
    \/ VenueBookOk
    \/ VenueBookFail
    \/ BookTimeout
    \/ OpFinish
    \/ OpReturn

SpecQuote == InitQuote /\ [][NextQuote]_vars

\* The timer and the event loop are not starved; the venue may never answer.
FairSpecQuote ==
    SpecQuote /\ WF_vars(BookTimeout) /\ WF_vars(OpFinish)


\* ------------------------------------------------- MarketRegistry.discover
MaxDexs == 2        \* HIP-3 deployers listed by the venue
MaxDiscovers == 2   \* discover() runs in flight at once

TypeError == "TypeError"

\* A venue asset name, kept in the parts extractBaseAsset takes it apart
\* into: "prefix:stemdigits", or "stemdigits" when there is no colon.
Asset(prefix, colon, stem, digits, isDelisted) ==
    [prefix |-> prefix, colon |-> colon, stem |-> stem, digits |-> digits,
     isDelisted |-> isDelisted]

AssetName(asset) ==
    (IF asset.colon THEN asset.prefix \o ":" ELSE "") \o asset.stem \o asset.digits

\* extractBaseAsset: split(":")[1], then strip trailing digits unless that
\* leaves nothing.  A name without a colon has no [1]: replace() throws.
ExtractBaseAsset(asset) ==
    IF ~asset.colon THEN TypeError
    ELSE IF asset.stem # "" THEN asset.stem
    ELSE asset.digits

\* resolveCollateralToken against the spot tokens fetched by this run
ResolveCollateralToken(tokenIndex, tokens) ==
    IF \E t \in tokens : t.index = tokenIndex
    THEN (CHOOSE t \in tokens : t.index = tokenIndex).name
    ELSE "TOKEN_" \o ToString(tokenIndex)

\* parseAsset; a baseAsset of TypeError stands for the call throwing.
ParseAsset(asset, index, ctx, dexName, collateral) ==
    LET isNative == dexName = "__native__"
        baseAsset == IF isNative THEN AssetName(asset) ELSE ExtractBaseAsset(asset)
    IN  [baseAsset |-> baseAsset, coin |-> AssetName(asset),
         assetIndex |-> index, dexName |-> dexName,
         collateral |-> collateral, isNative |-> isNative,
         funding |-> ctx.funding]

\* nextGroups.set(key, ...) if absent; group.markets.push(parsed);
\* group.hasAlternatives = group.markets.length > 1
PushMarket(nextGroups, parsed) ==
    LET key == ToUpperCase(parsed.baseAsset)
        withKey ==
            IF \E k \in 1..Len(nextGroups) : nextGroups[k].baseAsset = key
            THEN nextGroups
            ELSE Append(nextGroups,
                        [baseAsset |-> key, markets |-> <<>>, hasAlternatives |-> FALSE])
    IN  [k \in 1..Len(withKey) |->
            IF withKey[k].baseAsset = key
            THEN [baseAsset |-> key,
                  markets |-> Append(withKey[k].markets, parsed),
                  hasAlternatives |-> Len(withKey[k].markets) + 1 > 1]
            ELSE withKey[k]]

\* Mutant: every market keeps its local index.
GlobalAssetIndexLocal(dexIndex, i) == i

\* globalAssetIndex, with dexIndex and i counted from 0 as in the code
GlobalAssetIndex(dexIndex, i) ==
    IF dexIndex = 0 THEN i ELSE 100000 + dexIndex * 10000 + i

\* The loop's outcome: nextGroups, or the loop left by an exception.
Built(nextGroups) == [threw |-> FALSE, groups |-> nextGroups]
Thrown == [threw |-> TRUE, groups |-> <<>>]

\* Mutant: delisted assets are indexed like the others.
RECURSIVE AddUniverseWithDelisted(_, _, _, _, _, _, _)
AddUniverseWithDelisted(nextGroups, universe, i, assetCtxs, dexIndex, dexName, collateral) ==
    IF i >= Len(universe) THEN Built(nextGroups)
    ELSE LET asset == universe[i + 1]
             rest(g) == AddUniverseWithDelisted(g, universe, i + 1, assetCtxs,
                                                dexIndex, dexName, collateral)
         IN  IF i >= Len(assetCtxs) THEN rest(nextGroups)
             ELSE LET parsed == ParseAsset(asset, GlobalAssetIndex(dexIndex, i),
                                           assetCtxs[i + 1], dexName, collateral)
                  IN  IF parsed.baseAsset = TypeError THEN Thrown
                      ELSE rest(PushMarket(nextGroups, parsed))

\* The inner loop over meta.universe, from local index i on.
RECURSIVE AddUniverse(_, _, _, _, _, _, _)
AddUniverse(nextGroups, universe, i, assetCtxs, dexIndex, dexName, collateral) ==
    IF i >= Len(universe) THEN Built(nextGroups)
    ELSE LET asset == universe[i + 1]
             rest(g) == AddUniverse(g, universe, i + 1, assetCtxs, dexIndex,
                                    dexName, collateral)
         IN  IF asset.isDelisted THEN rest(nextGroups)
             ELSE IF i >= Len(assetCtxs) THEN rest(nextGroups)
             ELSE LET parsed == ParseAsset(asset, GlobalAssetIndex(dexIndex, i),
                                           assetCtxs[i + 1], dexName, collateral)
                  IN  IF parsed.baseAsset = TypeError THEN Thrown
                      ELSE rest(PushMarket(nextGroups, parsed))

\* The outer loop over allMetas.entries(), from dexIndex on.
RECURSIVE AddDexs(_, _, _, _, _, _)
AddDexs(nextGroups, dexs, allMetas, dexIndex, ctxResults, tokens) ==
    IF dexIndex >= Len(allMetas) THEN Built(nextGroups)
    ELSE LET meta == allMetas[dexIndex + 1]
             dexName == IF dexs[dexIndex + 1] = "null" THEN "__native__"
                        ELSE dexs[dexIndex + 1]
             collateral == ResolveCollateralToken(meta.collateralToken, tokens)
             ctxResult == ctxResults[dexIndex + 1]
         IN  IF ctxResult.status = "rejected"
             THEN AddDexs(nextGroups, dexs, allMetas, dexIndex + 1, ctxResults, tokens)
             ELSE LET added == AddUniverse(nextGroups, meta.universe, 0,
                                           ctxResult.assetCtxs, dexIndex,
                                           dexName, collateral)
                  IN  IF added.threw THEN Thrown
                      ELSE AddDexs(added.groups, dexs, allMetas, dexIndex + 1,
                                   ctxResults, tokens)

\* Mutant: the run adds to the published map instead of a map of its own.
BuildGroupsOntoPublished(data) ==
    AddDexs(groups, data.dexs, data.allMetas, 0, data.ctxResults, data.tokens)

\* The index a run has built when it reaches the swap, or Thrown.
BuildGroups(data) ==
    AddDexs(<<>>, data.dexs, data.allMetas, 0, data.ctxResults, data.tokens)

\* What the venue can answer.  spotMeta: with or without USDH listed.
SpotTokenSets ==
    {{[index |-> 0, name |-> "USDC"]},
     {[index |-> 0, name |-> "USDC"], [index |-> 1, name |-> "USDH"]}}

NativeMeta ==
    [collateralToken |-> 0,
     universe |-> <<Asset("", FALSE, "ETH", "", FALSE),
                    Asset("", FALSE, "BTC", "", TRUE)>>]

\* The metas the k-th deployer can publish.
Hip3Metas(k) ==
    CASE k = 1 ->
            {[collateralToken |-> 0,
              universe |-> <<Asset("xyz", TRUE, "TSLA", "", FALSE)>>],
             [collateralToken |-> 0,
              universe |-> <<Asset("xyz", TRUE, "XYZ", "100", FALSE),
                             Asset("xyz", TRUE, "TSLA", "", FALSE)>>],
             [collateralToken |-> 0,
              universe |-> <<Asset("", FALSE, "TSLA", "", FALSE)>>]}
      [] k = 2 ->
            {[collateralToken |-> 1,
              universe |-> <<Asset("flx", TRUE, "TSLA", "", FALSE),
                             Asset("flx", TRUE, "eth", "", FALSE)>>]}
      [] OTHER ->
            {[collateralToken |-> k,
              universe |-> <<Asset(DexNames[k], TRUE, "TSLA", "", FALSE)>>]}

\* perpDexs() and allPerpMetas(): the native dex first, then n deployers.
PerpDexs(n) == [d \in 1..(n + 1) |-> IF d = 1 THEN "null" ELSE DexNames[d - 1]]

AllPerpMetas ==
    UNION {{m \in [1..(n + 1) -> UNION {Hip3Metas(k) : k \in 1..MaxDexs}
                                    \cup {NativeMeta}] :
                /\ m[1] = NativeMeta
                /\ \A d \in 2..(n + 1) : m[d] \in Hip3Metas(d - 1)} :
           n \in 0..MaxDexs}

\* metaAndAssetCtxs(dex) settles: fulfilled with a context per asset,
\* fulfilled one context short, or rejected.
CtxFull(meta) ==
    [status |-> "fulfilled",
     assetCtxs |-> [i \in 1..Len(meta.universe) |-> [funding |-> 1]]]
CtxShort(meta) ==
    [status |-> "fulfilled",
     assetCtxs |-> [i \in 1..(Len(meta.universe) - 1) |-> [funding |-> 1]]]
CtxRejected == [status |-> "rejected", assetCtxs |-> <<>>]

CtxResults(allMetas) ==
    {[d \in 1..Len(allMetas) |->
            IF d # bad THEN CtxFull(allMetas[d])
            ELSE IF how = "short" THEN CtxShort(allMetas[d])
            ELSE CtxRejected] :
        bad \in 0..Len(allMetas), how \in {"short", "rejected"}}

\* --- the run, one step per await

Reading == lastRead # NoRead

\* Mutant: the run rebuilds the published map in place, clearing it first.
PublishedWhileBuildingCleared(index) == <<>>

\* this.groups while a run is building: the run fills its own nextGroups
\* and does not touch the published map.
PublishedWhileBuilding(index) == index

\* discover() up to `await provider.spotMeta()`
DiscoverStart(p) ==
    /\ ~Reading
    /\ disc[p].pc = "idle"
    /\ disc' = [disc EXCEPT ![p].pc = "spotMeta"]
    /\ groups' = PublishedWhileBuilding(groups)
    /\ UNCHANGED <<lastData, lastRead, qvars, evars, fvars, unit, pvars>>

\* spotMeta() resolves; the run goes on to perpDexs() / allPerpMetas().
SpotMetaOk(p, tokens) ==
    /\ ~Reading
    /\ disc[p].pc = "spotMeta"
    /\ disc' = [disc EXCEPT ![p] = [pc |-> "perpMetas", tokens |-> tokens,
                                    allMetas |-> <<>>]]
    /\ UNCHANGED <<groups, lastData, lastRead, qvars, evars, fvars, unit, pvars>>

\* perpDexs() and allPerpMetas() resolve; the run asks every dex for its
\* asset contexts.
PerpMetasOk(p, allMetas) ==
    /\ ~Reading
    /\ disc[p].pc = "perpMetas"
    /\ disc' = [disc EXCEPT ![p].pc = "ctxs", ![p].allMetas = allMetas]
    /\ UNCHANGED <<groups, lastData, lastRead, qvars, evars, fvars, unit, pvars>>

\* spotMeta(), perpDexs() or allPerpMetas() rejects: discover() throws.
DiscoverFetchFail(p) ==
    /\ ~Reading
    /\ disc[p].pc \in {"spotMeta", "perpMetas"}
    /\ disc' = [disc EXCEPT ![p] = IdleRun]
    /\ UNCHANGED <<groups, lastData, lastRead, qvars, evars, fvars, unit, pvars>>

\* What the venue answered, without the history flag.
AnswerOf(data) ==
    [tokens |-> data.tokens, dexs |-> data.dexs, allMetas |-> data.allMetas,
     ctxResults |-> data.ctxResults]

\* Promise.allSettled resolves; the loop builds nextGroups and, unless it
\* threw, the run publishes it.  lastData.repeat records that the venue
\* answered this run as it answered the successful run before it.
DiscoverFinish(p, ctxResults) ==
    /\ ~Reading
    /\ disc[p].pc = "ctxs"
    /\ LET answer == [tokens |-> disc[p].tokens,
                      dexs |-> PerpDexs(Len(disc[p].allMetas) - 1),
                      allMetas |-> disc[p].allMetas,
                      ctxResults |-> ctxResults]
           data == [tokens |-> answer.tokens, dexs |-> answer.dexs,
                    allMetas |-> answer.allMetas,
                    ctxResults |-> answer.ctxResults,
                    repeat |-> AnswerOf(lastData) = answer]
           built == BuildGroups(data)
       IN  /\ groups' = IF built.threw THEN groups ELSE built.groups
           /\ lastData' = IF built.threw THEN lastData ELSE data
    /\ disc' = [disc EXCEPT ![p] = IdleRun]
    /\ UNCHANGED <<lastRead, qvars, evars, fvars, unit, pvars>>

\* The four reads.
RegistryRead(index, op, arg) ==
    CASE op = "getMarkets" -> GetMarkets(index, arg)
      [] op = "getGroup" -> GetGroup(index, arg)
      [] op = "getAllGroups" -> GetAllGroups(index)
      [] OTHER -> GetGroupsWithAlternatives(index)

ReadOps == {"getMarkets", "getGroup", "getAllGroups", "getGroupsWithAlternatives"}
ReadArgs(op) == IF op \in {"getMarkets", "getGroup"} THEN {"tsla", "ETH"} ELSE {""}

\* A read is synchronous: it is answered from this.groups as it stands.
Read(op, arg) ==
    /\ ~Reading
    /\ lastRead' = [op |-> op, arg |-> arg,
                    result |-> RegistryRead(groups, op, arg), data |-> lastData]
    /\ UNCHANGED <<groups, disc, lastData, qvars, evars, fvars, unit, pvars>>

\* The reader takes the answer.
ReadReturn ==
    /\ Reading
    /\ lastRead' = NoRead
    /\ UNCHANGED <<groups, disc, lastData, qvars, evars, fvars, unit, pvars>>

InitRegistry ==
    /\ groups = <<>>
    /\ disc = [p \in 1..MaxDiscovers |-> IdleRun]
    /\ lastData = NoData
    /\ lastRead = NoRead
    /\ QIdle
    /\ EIdle
    /\ FIdle
    /\ UIdle
    /\ PIdle

Discover == \E p \in DOMAIN disc : DiscoverStart(p)
VenueSpotMeta == \E p \in DOMAIN disc : \E tokens \in SpotTokenSets : SpotMetaOk(p, tokens)
VenuePerpMetas == \E p \in DOMAIN disc : \E allMetas \in AllPerpMetas : PerpMetasOk(p, allMetas)
VenueMetaFail == \E p \in DOMAIN disc : DiscoverFetchFail(p)
VenueCtxsSettled ==
    \E p \in DOMAIN disc :
        \E ctxResults \in CtxResults(disc[p].allMetas) : DiscoverFinish(p, ctxResults)
RegistryReads == \E op \in ReadOps : \E arg \in ReadArgs(op) : Read(op, arg)

NextRegistry ==
    \/ Discover
    \/ VenueSpotMeta
    \/ VenuePerpMetas
    \/ VenueMetaFail
    \/ VenueCtxsSettled
    \/ RegistryReads
    \/ ReadReturn

SpecRegistry == InitRegistry /\ [][NextRegistry]_vars


\* ------------------------------------------------- CollateralManager
MaxLegs == 2        \* legs of a split plan
MaxCalls == 3       \* execute / executeSplit calls made on one executor

\* One entry of a call's trace: a venue or manager call issued, answered
\* ("ok") or failed.
Ev(call, phase, token, status) ==
    [call |-> call, phase |-> phase, token |-> token, status |-> status]

\* collateralNeeds: allocations grouped by collateral token, in Map
\* insertion order.
RECURSIVE CollateralNeeds(_, _)
CollateralNeeds(allocations, needs) ==
    IF allocations = <<>> THEN needs
    ELSE LET token == Head(allocations).market.collateral
             amount == Head(allocations).estimatedCost
         IN  CollateralNeeds(
                Tail(allocations),
                IF \E k \in 1..Len(needs) : needs[k].token = token
                THEN [k \in 1..Len(needs) |->
                        IF needs[k].token = token
                        THEN [token |-> token, amount |-> needs[k].amount + amount]
                        ELSE needs[k]]
                ELSE Append(needs, [token |-> token, amount |-> amount]))

Requirement(token, amountNeeded, currentBalance, shortfall) ==
    [token |-> token, amountNeeded |-> amountNeeded,
     currentBalance |-> currentBalance, shortfall |-> shortfall,
     swapFrom |-> "USDC"]

BalanceOf(balanceMap, token) ==
    IF token \in DOMAIN balanceMap THEN balanceMap[token] ELSE 0

\* Mutant: USDC is measured against the perp balance like any other token.
RECURSIVE UsdcRequirementsMeasured(_, _)
UsdcRequirementsMeasured(needs, perpUsdcBalance) ==
    IF needs = <<>> THEN <<>>
    ELSE (IF Head(needs).token = "USDC"
          THEN <<Requirement("USDC", Head(needs).amount, perpUsdcBalance,
                             Max(0, Head(needs).amount - perpUsdcBalance))>>
          ELSE <<>>) \o UsdcRequirementsMeasured(Tail(needs), perpUsdcBalance)

\* The USDC requirement is pushed in the first loop, the others in the
\* second.
RECURSIVE UsdcRequirements(_, _)
UsdcRequirements(needs, perpUsdcBalance) ==
    IF needs = <<>> THEN <<>>
    ELSE (IF Head(needs).token = "USDC"
          THEN <<Requirement("USDC", Head(needs).amount, perpUsdcBalance, 0)>>
          ELSE <<>>) \o UsdcRequirements(Tail(needs), perpUsdcBalance)

RECURSIVE SwapRequirements(_, _)
SwapRequirements(needs, balanceMap) ==
    IF needs = <<>> THEN <<>>
    ELSE (IF Head(needs).token = "USDC" THEN <<>>
          ELSE LET currentBalance == BalanceOf(balanceMap, Head(needs).token)
               IN  <<Requirement(Head(needs).token, Head(needs).amount,
                                 currentBalance,
                                 Max(0, Head(needs).amount - currentBalance))>>)
         \o SwapRequirements(Tail(needs), balanceMap)

\* estimateRequirements, given what the two balance reads returned.  The
\* swap-cost fields are not carried: neither prepare nor the executor
\* reads them.
EstimateRequirements(allocations, balanceMap, perpUsdcBalance) ==
    LET needs == CollateralNeeds(allocations, <<>>)
        swaps == SwapRequirements(needs, balanceMap)
    IN  [requirements |-> UsdcRequirements(needs, perpUsdcBalance) \o swaps,
         swapsNeeded |-> \E k \in 1..Len(swaps) : swaps[k].shortfall > 0,
         abstractionEnabled |-> FALSE]

NoPlan == [requirements |-> <<>>, swapsNeeded |-> FALSE, abstractionEnabled |-> FALSE]

\* What estimateSwapCost resolves with, in bps; `returned` tells a value
\* from a rejection of the promise.
SwapCost(num, den) == [returned |-> TRUE, bps |-> [num |-> num, den |-> den]]

\* Mutant: a rejected l2Book leaves estimateSwapCost.
EstimateSwapCostUncaught(fetch, amount) ==
    IF fetch.st # "ok" THEN [returned |-> FALSE, bps |-> [num |-> 0, den |-> 1]]
    ELSE IF Len(fetch.book.bids) = 0 /\ Len(fetch.book.asks) = 0 THEN SwapCost(50, 1)
    ELSE LET sim == Simulate(fetch.book, "buy", amount)
         IN  IF ~sim.ok THEN SwapCost(100, 1)
             ELSE SwapCost(sim.impact.num, sim.impact.den)

\* estimateSwapCost once l2Book(toToken) has settled.
EstimateSwapCost(fetch, amount) ==
    IF fetch.st # "ok" THEN SwapCost(50, 1)
    ELSE IF Len(fetch.book.bids) = 0 /\ Len(fetch.book.asks) = 0 THEN SwapCost(50, 1)
    ELSE LET sim == Simulate(fetch.book, "buy", amount)
         IN  IF ~sim.ok THEN SwapCost(100, 1)
             ELSE SwapCost(sim.impact.num, sim.impact.den)

\* prepare's lookups in spotMeta: tokenByName.get and pairByTokenIndex.get
\* (the first pair of the universe that lists the token).
TokenByName(spotMeta, name) ==
    IF \E t \in spotMeta.tokens : t.name = name
    THEN <<CHOOSE t \in spotMeta.tokens : t.name = name>>
    ELSE <<>>

RECURSIVE PairByTokenIndex(_, _)
PairByTokenIndex(universe, tokenIndex) ==
    IF universe = <<>> THEN <<>>
    ELSE IF \E k \in 1..Len(Head(universe).tokens) : Head(universe).tokens[k] = tokenIndex
    THEN <<Head(universe)>>
    ELSE PairByTokenIndex(Tail(universe), tokenIndex)

SpotAssetIndex(pair) == 10000 + 2 * pair.index

\* Mutant: the loop takes the last requirement it does not skip.
NextSwapFromTheEnd(requirements, k) ==
    LET left == {j \in k..Len(requirements) :
                    ~(requirements[j].shortfall <= 0 \/ requirements[j].token = "USDC")}
    IN  IF left = {} THEN 0 ELSE CHOOSE j \in left : \A i \in left : i <= j

\* The next requirement the loop does not skip, from index k on; 0 when
\* the loop is over.
RECURSIVE NextSwap(_, _)
NextSwap(requirements, k) ==
    IF k > Len(requirements) THEN 0
    ELSE IF requirements[k].shortfall <= 0 \/ requirements[k].token = "USDC"
    THEN NextSwap(requirements, k + 1)
    ELSE k

\* What prepare resolves with.  `returned` tells a receipt from a
\* rejection of the promise.
CollateralReceipt(success, swapsExecuted, abstractionWasEnabled, error) ==
    [returned |-> TRUE, success |-> success, swapsExecuted |-> swapsExecuted,
     abstractionWasEnabled |-> abstractionWasEnabled, error |-> error]

\* Mutant: the exception leaves prepare.
PrepareRethrow(swapsExecuted, abstractionWasEnabled, message) ==
    [returned |-> FALSE, success |-> FALSE, swapsExecuted |-> swapsExecuted,
     abstractionWasEnabled |-> abstractionWasEnabled, error |-> message]

\* prepare's catch block
PrepareCatch(swapsExecuted, abstractionWasEnabled, message) ==
    CollateralReceipt(FALSE, swapsExecuted, abstractionWasEnabled, message)

\* filled = status.filled.totalSz when the status is a fill, else "0"
FilledOf(status, size) == IF status = "filled" THEN size ELSE 0

\* ------------------------------------------------- Executor
\* src/execution/executor.ts is not among the sources at hand: the executor
\* follows the specification (4.8 Executor, 5 Concurrency) and the calls
\* its unit tests observe.

\* Mutant: the check runs on every call.
NeedsCheckAlways(b, approved) == b # NoBuilder

\* The builder-fee check runs when a builder is configured and the one-shot
\* flag is not set.
NeedsCheck(b, approved) == b # NoBuilder /\ ~approved

\* Mutant: an authorization equal to the fee is approved again.
NeedsApprovalAtOrBelow(current, feeBps) == current <= feeBps * 10

\* The authorised fee is below the configured one, in 0.1-bps wire units.
NeedsApproval(current, feeBps) == current < feeBps * 10

\* Mutant: the flag is not set before the call suspends.
LeaveFlag(approved) == approved

\* The one-shot flag after the compare-and-set at the head of a call.
ClaimFlag(approved) == TRUE

\* Order status -> ExecutionReceipt.  "rejected" is placeOrder throwing.
ExecutionReceipt(leg, status) ==
    [success |-> status \in {"filled", "resting"},
     coin |-> leg.market.coin,
     requestedSize |-> leg.size,
     filledSize |-> FilledOf(status, leg.size),
     error |-> CASE status = "error" -> "order error"
                 [] status = "rejected" -> "exception"
                 [] OTHER -> ""]

NoReceipt == [success |-> FALSE, legs |-> <<>>, error |-> "none"]

Conj(bs) == \A k \in 1..Len(bs) : bs[k]

\* Mutant: one successful leg makes the whole receipt successful.
SplitReceiptAnyLeg(legs, statuses) ==
    LET receipts == [k \in 1..Len(legs) |-> ExecutionReceipt(legs[k], statuses[k])]
    IN  [success |-> \E k \in 1..Len(legs) : receipts[k].success,
         legs |-> receipts, error |-> ""]

SplitReceipt(legs, statuses) ==
    LET receipts == [k \in 1..Len(legs) |-> ExecutionReceipt(legs[k], statuses[k])]
    IN  [success |-> Conj([k \in 1..Len(legs) |-> receipts[k].success]),
         legs |-> receipts, error |-> ""]

PrepareFailedReceipt(receipt) ==
    [success |-> FALSE, legs |-> <<>>,
     error |-> "Collateral preparation failed: " \o receipt.error]

\* No maxBuilderFee answer has come to the call.
NotRead == -1

IdleCall ==
    [pc |-> "idle", kind |-> "none", seq |-> 0, legs |-> <<>>, cplan |-> NoPlan,
     ri |-> 0, spotMeta |-> [tokens |-> {}, universe |-> <<>>],
     swapsExecuted |-> <<>>, abstractionWasEnabled |-> FALSE,
     prep |-> <<>>, batch |-> <<>>, statuses |-> <<>>, receipt |-> NoReceipt,
     authorised |-> NotRead, trace |-> <<>>]

Logged(call, ev) == [call EXCEPT !.trace = Append(@, ev)]

\* The wire order of a leg.
OrderOf(leg) == [coin |-> leg.market.coin, size |-> leg.size]

\* The orders of one batchOrders call: one per leg, in plan order.
BatchOrders(legs) == [k \in 1..Len(legs) |-> OrderOf(legs[k])]

\* Mutant: the legs go out one placeOrder at a time.
SubmitLegByLeg(call) ==
    [Logged(call, Ev("placeOrder", "issued", call.legs[1].market.coin, ""))
        EXCEPT !.pc = "placeOrder"]

\* batchOrders is issued with every leg of the plan.
SubmitBatch(call) ==
    [Logged(call, Ev("batchOrders", "issued", "", ""))
        EXCEPT !.pc = "batchOrders", !.batch = BatchOrders(call.legs)]

\* The call after its builder-fee step: the order goes out (execute) or
\* collateral is estimated (executeSplit).
Proceed(call) ==
    IF call.kind = "execute"
    THEN [Logged(call, Ev("placeOrder", "issued", call.legs[1].market.coin, ""))
            EXCEPT !.pc = "placeOrder"]
    ELSE [Logged(call, Ev("estimateRequirements", "issued", "", ""))
            EXCEPT !.pc = "estimate"]

\* Mutant: a failed builder-fee step ends the call.
AbortOnFeeFailure(call) ==
    [call EXCEPT !.pc = "done",
                 !.receipt = [success |-> FALSE, legs |-> <<>>,
                              error |-> "builder approval failed"]]

\* maxBuilderFee or approveBuilderFee failed: caught and logged.
AfterFeeFailure(call) == Proceed(call)

\* Mutant: the legs go out whatever prepare returned.
SubmitDespitePrepare(call, receipt) == SubmitBatch(call)

\* executeSplit once prepare has settled
AfterPrepare(call, receipt) ==
    IF ~receipt.returned THEN [call EXCEPT !.pc = "threw"]
    ELSE IF ~receipt.success
    THEN [call EXCEPT !.pc = "done", !.receipt = PrepareFailedReceipt(receipt)]
    ELSE SubmitBatch(call)

\* prepare settles with `receipt` and executeSplit resumes.
PrepareReturn(call, receipt) ==
    AfterPrepare(
        [Logged(call, Ev("prepare", IF receipt.returned /\ receipt.success
                                    THEN "ok" ELSE "failed", "", ""))
            EXCEPT !.prep = <<receipt>>],
        receipt)

\* The head of prepare's loop from requirement k on: the transfer for the
\* next shortfall, or the successful return.
PrepareLoop(call, k) ==
    LET next == NextSwap(call.cplan.requirements, k)
    IN  IF next = 0
        THEN PrepareReturn(call, CollateralReceipt(TRUE, call.swapsExecuted,
                                                   call.abstractionWasEnabled, ""))
        ELSE [Logged(call, Ev("usdClassTransfer", "issued",
                              call.cplan.requirements[next].token, ""))
                EXCEPT !.pc = "usdClassTransfer", !.ri = next]

\* prepare is called: step 1, or straight to spotMeta.
PrepareStart(call) ==
    LET entered == Logged(call, Ev("prepare", "issued", "", ""))
    IN  IF ~call.cplan.abstractionEnabled
        THEN [Logged(entered, Ev("setDexAbstraction", "issued", "", ""))
                EXCEPT !.pc = "setDexAbstraction"]
        ELSE [Logged(entered, Ev("spotMeta", "issued", "", ""))
                EXCEPT !.pc = "spotMeta"]

PreparePcs == {"setDexAbstraction", "spotMeta", "usdClassTransfer", "l2Book", "spotOrder"}
PcCall(pc) == IF pc = "spotOrder" THEN "placeOrder" ELSE pc

Started == Cardinality({c \in DOMAIN calls : calls[c].pc # "idle"})

\* --- steps
\* execute / executeSplit up to the first await.
CallStart(c, kind, legs) ==
    /\ calls[c].pc = "idle"
    /\ LET call == [IdleCall EXCEPT !.kind = kind, !.legs = legs, !.seq = Started + 1]
       IN  IF NeedsCheck(builder, builderApproved)
           THEN /\ builderApproved' = ClaimFlag(builderApproved)
                /\ calls' = [calls EXCEPT ![c] =
                                [Logged(call, Ev("maxBuilderFee", "issued", "", ""))
                                    EXCEPT !.pc = "maxBuilderFee"]]
           ELSE /\ calls' = [calls EXCEPT ![c] = Proceed(call)]
                /\ UNCHANGED builderApproved
    /\ UNCHANGED <<groups, rvars, qvars, fvars, unit, builder, pvars>>

\* maxBuilderFee resolves with the current authorization.
MaxBuilderFeeOk(c, current) ==
    /\ calls[c].pc = "maxBuilderFee"
    /\ LET call == [Logged(calls[c], Ev("maxBuilderFee", "ok", "", ""))
                        EXCEPT !.authorised = current]
       IN  calls' = [calls EXCEPT ![c] =
                IF NeedsApproval(current, builder.feeBps)
                THEN [Logged(call, Ev("approveBuilderFee", "issued", "", ""))
                        EXCEPT !.pc = "approveBuilderFee"]
                ELSE Proceed(call)]
    /\ UNCHANGED <<groups, rvars, qvars, fvars, unit, builder, builderApproved, pvars>>

\* approveBuilderFee resolves.
ApproveBuilderFeeOk(c) ==
    /\ calls[c].pc = "approveBuilderFee"
    /\ calls' = [calls EXCEPT ![c] =
                    Proceed(Logged(calls[c], Ev("approveBuilderFee", "ok", "", "")))]
    /\ UNCHANGED <<groups, rvars, qvars, fvars, unit, builder, builderApproved, pvars>>

\* maxBuilderFee or approveBuilderFee rejects.
BuilderFeeFail(c) ==
    /\ calls[c].pc \in {"maxBuilderFee", "approveBuilderFee"}
    /\ calls' = [calls EXCEPT ![c] =
                    AfterFeeFailure(Logged(calls[c], Ev(calls[c].pc, "failed", "", "")))]
    /\ UNCHANGED <<groups, rvars, qvars, fvars, unit, builder, builderApproved, pvars>>

\* placeOrder of execute settles: a status, or a rejection.
PlaceOrderSettles(c, status) ==
    /\ calls[c].pc = "placeOrder"
    /\ calls' = [calls EXCEPT ![c] =
                    [Logged(calls[c],
                            Ev("placeOrder",
                               IF status = "rejected" THEN "failed" ELSE "ok",
                               calls[c].legs[1].market.coin, status))
                        EXCEPT !.pc = "done",
                               !.receipt = ExecutionReceipt(calls[c].legs[1], status)]]
    /\ UNCHANGED <<groups, rvars, qvars, fvars, unit, builder, builderApproved, pvars>>

\* estimateRequirements resolves; prepare is entered when swaps are needed.
EstimateOk(c, balanceMap) ==
    /\ calls[c].pc = "estimate"
    /\ LET plan == EstimateRequirements(calls[c].legs, balanceMap, 0)
           call == [Logged(calls[c], Ev("estimateRequirements", "ok", "", ""))
                        EXCEPT !.cplan = plan]
       IN  calls' = [calls EXCEPT ![c] =
                IF plan.swapsNeeded THEN PrepareStart(call) ELSE SubmitBatch(call)]
    /\ UNCHANGED <<groups, rvars, qvars, fvars, unit, builder, builderApproved, pvars>>

\* A balance read of estimateRequirements rejects: executeSplit rejects.
EstimateFail(c) ==
    /\ calls[c].pc = "estimate"
    /\ calls' = [calls EXCEPT ![c] =
                    [Logged(calls[c], Ev("estimateRequirements", "failed", "", ""))
                        EXCEPT !.pc = "threw"]]
    /\ UNCHANGED <<groups, rvars, qvars, fvars, unit, builder, builderApproved, pvars>>

\* setDexAbstraction(true) resolves.
SetDexAbstractionOk(c) ==
    /\ calls[c].pc = "setDexAbstraction"
    /\ calls' = [calls EXCEPT ![c] =
                    [Logged(Logged(calls[c], Ev("setDexAbstraction", "ok", "", "")),
                            Ev("spotMeta", "issued", "", ""))
                        EXCEPT !.pc = "spotMeta", !.abstractionWasEnabled = TRUE]]
    /\ UNCHANGED <<groups, rvars, qvars, fvars, unit, builder, builderApproved, pvars>>

\* spotMeta() resolves; the loop starts.
PrepareSpotMetaOk(c, spotMeta) ==
    /\ calls[c].pc = "spotMeta"
    /\ calls' = [calls EXCEPT ![c] =
                    PrepareLoop([Logged(calls[c], Ev("spotMeta", "ok", "", ""))
                                    EXCEPT !.spotMeta = spotMeta], 1)]
    /\ UNCHANGED <<groups, rvars, qvars, fvars, unit, builder, builderApproved, pvars>>

\* usdClassTransfer resolves; the spot book is asked for.
TransferOk(c) ==
    /\ calls[c].pc = "usdClassTransfer"
    /\ LET token == calls[c].cplan.requirements[calls[c].ri].token
       IN  calls' = [calls EXCEPT ![c] =
                [Logged(Logged(calls[c], Ev("usdClassTransfer", "ok", token, "")),
                        Ev("l2Book", "issued", token, ""))
                    EXCEPT !.pc = "l2Book"]]
    /\ UNCHANGED <<groups, rvars, qvars, fvars, unit, builder, builderApproved, pvars>>

\* l2Book(token) resolves: no asks, token or pair unknown -> failure
\* receipt; else the spot order is placed.
SpotBookOk(c, asks) ==
    /\ calls[c].pc = "l2Book"
    /\ LET req == calls[c].cplan.requirements[calls[c].ri]
           call == Logged(calls[c],
                          Ev("l2Book", "ok", req.token,
                             IF asks = <<>> THEN "no asks" ELSE "asks"))
           fail(msg) == PrepareReturn(call,
                            CollateralReceipt(FALSE, call.swapsExecuted,
                                              call.abstractionWasEnabled, msg))
           spotToken == TokenByName(call.spotMeta, req.token)
           pair == IF spotToken = <<>> THEN <<>>
                   ELSE PairByTokenIndex(call.spotMeta.universe, spotToken[1].index)
       IN  calls' = [calls EXCEPT ![c] =
                IF asks = <<>> THEN fail("No spot liquidity for " \o req.token)
                ELSE IF spotToken = <<>>
                THEN fail("Spot token " \o req.token \o " not found in spotMeta")
                ELSE IF pair = <<>> THEN fail("No spot pair found for " \o req.token)
                ELSE [Logged(call, Ev("placeOrder", "issued", req.token,
                                      ToString(SpotAssetIndex(pair[1]))))
                        EXCEPT !.pc = "spotOrder"]]
    /\ UNCHANGED <<groups, rvars, qvars, fvars, unit, builder, builderApproved, pvars>>

\* The spot placeOrder resolves; the swap is recorded and the loop goes on.
SpotOrderOk(c, status) ==
    /\ calls[c].pc = "spotOrder"
    /\ LET req == calls[c].cplan.requirements[calls[c].ri]
           call == [Logged(calls[c], Ev("placeOrder", "ok", req.token, status))
                        EXCEPT !.swapsExecuted =
                            Append(@, [from |-> req.swapFrom, to |-> req.token,
                                       amount |-> req.shortfall,
                                       filled |-> FilledOf(status, req.shortfall)])]
       IN  calls' = [calls EXCEPT ![c] = PrepareLoop(call, calls[c].ri + 1)]
    /\ UNCHANGED <<groups, rvars, qvars, fvars, unit, builder, builderApproved, pvars>>

\* Any venue call of prepare rejects: the catch block answers.
PrepareVenueFail(c) ==
    /\ calls[c].pc \in PreparePcs
    /\ LET token == IF calls[c].ri = 0 THEN ""
                    ELSE calls[c].cplan.requirements[calls[c].ri].token
           call == Logged(calls[c], Ev(PcCall(calls[c].pc), "failed", token, ""))
       IN  calls' = [calls EXCEPT ![c] =
                PrepareReturn(call, PrepareCatch(call.swapsExecuted,
                                                 call.abstractionWasEnabled,
                                                 "venue error"))]
    /\ UNCHANGED <<groups, rvars, qvars, fvars, unit, builder, builderApproved, pvars>>

\* batchOrders resolves with one status per leg.
BatchSettles(c, statuses) ==
    /\ calls[c].pc = "batchOrders"
    /\ Len(statuses) = Len(calls[c].legs)
    /\ calls' = [calls EXCEPT ![c] =
                    [Logged(calls[c], Ev("batchOrders", "ok", "", ""))
                        EXCEPT !.pc = "done",
                               !.statuses = statuses,
                               !.receipt = SplitReceipt(calls[c].legs, statuses)]]
    /\ UNCHANGED <<groups, rvars, qvars, fvars, unit, builder, builderApproved, pvars>>

\* batchOrders rejects: executeSplit rejects.
BatchFail(c) ==
    /\ calls[c].pc = "batchOrders"
    /\ calls' = [calls EXCEPT ![c] =
                    [Logged(calls[c], Ev("batchOrders", "failed", "", ""))
                        EXCEPT !.pc = "threw"]]
    /\ UNCHANGED <<groups, rvars, qvars, fvars, unit, builder, builderApproved, pvars>>

\* --- inputs
TheBuilder == [address |-> "0xB", feeBps |-> 5]
Builders == {NoBuilder, TheBuilder}
Authorizations == {0, 49, 50, 60}

LegMarket(collateral) ==
    CASE collateral = "USDC" -> [coin |-> "xyz:TSLA", collateral |-> "USDC"]
      [] collateral = "USDH" -> [coin |-> "flx:TSLA", collateral |-> "USDH"]
      [] OTHER -> [coin |-> "cash:TSLA", collateral |-> collateral]

\* A leg with the figures the estimate reads off it.
Leg(collateral) == [market |-> LegMarket(collateral), size |-> 1, estimatedCost |-> 2]

SplitPlans ==
    UNION {[1..n -> {Leg(t) : t \in {"USDC", "USDH", "USDT0"}}] : n \in 1..MaxLegs}

SpotBalances == [{"USDH", "USDT0"} -> {1, 4}]

\* Plans and balances of a user who holds what the legs need.
AmplePlans == {<<Leg("USDC")>>, <<Leg("USDC"), Leg("USDH")>>}
AmpleBalances == [t \in {"USDH", "USDT0"} |-> 4]

OrderStatuses == {"filled", "resting", "error"}

SpotPair(index, base) == [index |-> index, tokens |-> <<base, 0>>]
SpotToken(name, index) == [name |-> name, index |-> index]
SpotMetas ==
    {[tokens |-> {SpotToken("USDC", 0), SpotToken("USDH", 1), SpotToken("USDT0", 2)},
      universe |-> <<SpotPair(1, 1), SpotPair(2, 2)>>],
     [tokens |-> {SpotToken("USDC", 0), SpotToken("USDT0", 2)},
      universe |-> <<SpotPair(2, 2)>>],
     [tokens |-> {SpotToken("USDC", 0), SpotToken("USDH", 1), SpotToken("USDT0", 2)},
      universe |-> <<SpotPair(1, 1)>>]}

SpotAsks == {<<>>, <<[px |-> 1, sz |-> 4]>>}

\* --- SpecExec: calls racing on one executor, balances ample
InitExecutor(n) ==
    /\ groups = <<>>
    /\ RIdle
    /\ QIdle
    /\ builder \in Builders
    /\ builderApproved = FALSE
    /\ calls = [c \in 1..n |-> IdleCall]
    /\ FIdle
    /\ UIdle
    /\ PIdle

InitExec == InitExecutor(MaxCalls)

Execute == \E c \in DOMAIN calls : CallStart(c, "execute", <<Leg("USDC")>>)
ExecuteSplitAmple ==
    \E c \in DOMAIN calls : \E legs \in AmplePlans : CallStart(c, "executeSplit", legs)
VenueMaxBuilderFee ==
    \E c \in DOMAIN calls : \E current \in Authorizations : MaxBuilderFeeOk(c, current)
VenueApproved == \E c \in DOMAIN calls : ApproveBuilderFeeOk(c)
VenueFeeFail == \E c \in DOMAIN calls : BuilderFeeFail(c)
VenueOrder ==
    \E c \in DOMAIN calls : \E status \in OrderStatuses \cup {"rejected"} :
        PlaceOrderSettles(c, status)
AmpleEstimate == \E c \in DOMAIN calls : EstimateOk(c, AmpleBalances)
VenueEstimateFail == \E c \in DOMAIN calls : EstimateFail(c)
VenueBatch ==
    \E c \in DOMAIN calls :
        \E statuses \in [1..Len(calls[c].legs) -> OrderStatuses] : BatchSettles(c, statuses)
VenueBatchFail == \E c \in DOMAIN calls : BatchFail(c)

NextExec ==
    \/ Execute
    \/ ExecuteSplitAmple
    \/ VenueMaxBuilderFee
    \/ VenueApproved
    \/ VenueFeeFail
    \/ VenueOrder
    \/ AmpleEstimate
    \/ VenueEstimateFail
    \/ VenueBatch
    \/ VenueBatchFail

SpecExec == InitExec /\ [][NextExec]_vars

\* --- SpecSplit: one executeSplit call, every prepare path
InitSplit == InitExecutor(1)

ExecuteSplit ==
    \E c \in DOMAIN calls : \E legs \in SplitPlans : CallStart(c, "executeSplit", legs)
Estimate == \E c \in DOMAIN calls : \E balanceMap \in SpotBalances : EstimateOk(c, balanceMap)
VenueAbstraction == \E c \in DOMAIN calls : SetDexAbstractionOk(c)
VenuePrepareSpotMeta ==
    \E c \in DOMAIN calls : \E spotMeta \in SpotMetas : PrepareSpotMetaOk(c, spotMeta)
VenueTransfer == \E c \in DOMAIN calls : TransferOk(c)
VenueSpotBook == \E c \in DOMAIN calls : \E asks \in SpotAsks : SpotBookOk(c, asks)
VenueSpotOrder == \E c \in DOMAIN calls : \E status \in OrderStatuses : SpotOrderOk(c, status)
VenuePrepareFail == \E c \in DOMAIN calls : PrepareVenueFail(c)

NextSplit ==
    \/ ExecuteSplit
    \/ VenueMaxBuilderFee
    \/ VenueApproved
    \/ VenueFeeFail
    \/ Estimate
    \/ VenueEstimateFail
    \/ VenueAbstraction
    \/ VenuePrepareSpotMeta
    \/ VenueTransfer
    \/ VenueSpotBook
    \/ VenueSpotOrder
    \/ VenuePrepareFail
    \/ VenueBatch
    \/ VenueBatchFail

SpecSplit == InitSplit /\ [][NextSplit]_vars


\* =================================================================
\* Properties
\* =================================================================
qresult ==
    IF qpc = "done" THEN OpResult(qop, qmarkets, qfetch, qside, qsize, qcoll)
    ELSE [kind |-> "none"]
IsError(r, name) == r.kind = "error" /\ r.error = name
QuoteDone == qpc = "done" /\ qop = "quote" /\ Len(qmarkets) > 0
Responded == {i \in 1..Len(qfetch) : qfetch[i].st = "ok"}
RespondedCoins == {qmarkets[i].coin : i \in Responded}
\* Cumulative depth of the walked side, counted without simulate().
Depth(i) == SumSz(WalkedSide(qfetch[i].book, qside))
Sufficient == {i \in Responded : Depth(i) >= qsize}
\* a.totalScore <= b.totalScore
ScoreLeq(a, b) ==
    IF b.inf THEN TRUE
    ELSE IF a.inf THEN FALSE
    ELSE a.num * b.den <= b.num * a.den
SeqRange(s) == {s[i] : i \in 1..Len(s)}
ScoreOfCoin(alts, coin) == CHOOSE a \in SeqRange(alts) : a.coin = coin

\* C3: for an asset with at least one registered market, quote fails with
\* MarketDataUnavailable exactly when no book fetch succeeded, with
\* InsufficientLiquidity exactly when some book was fetched but none has
\* cumulative depth >= size on the walked side, and returns a quote otherwise.
C3_QuoteFailureKinds ==
    QuoteDone =>
        /\ IsError(qresult, "MarketDataUnavailable") <=> (Responded = {})
        /\ IsError(qresult, "InsufficientLiquidity")
              <=> (Responded # {} /\ Sufficient = {})
        /\ (qresult.kind = "quote") <=> (Sufficient # {})

C3_Witness ==
    /\ QuoteDone
    /\ Len(qmarkets) = 2
    /\ Cardinality(Responded) = 1
    /\ IsError(qresult, "InsufficientLiquidity")

\* C4: the market quote selects has the minimum total_score among the
\* markets whose book was fetched and is deep enough, and
\* alternatives_considered is in non-decreasing order of total_score.
C4_SelectedIsMinimal ==
    (QuoteDone /\ qresult.kind = "quote") =>
        LET alts == qresult.alternativesConsidered
            sel == qresult.selectedMarket
        IN  /\ \A i \in 1..(Len(alts) - 1) : ScoreLeq(alts[i], alts[i + 1])
            /\ sel \in {qmarkets[i].coin : i \in Sufficient}
            /\ \A i \in Sufficient :
                  ScoreLeq(ScoreOfCoin(alts, sel),
                           Score(SimulationOf(
                                    Walk(WalkedSide(qfetch[i].book, qside), qsize, 0),
                                    qfetch[i].book, qsize),
                                 qmarkets[i], qside, qcoll))

\* Two deep-enough markets with different scores, the later one selected.
C4_Witness ==
    /\ QuoteDone
    /\ qresult.kind = "quote"
    /\ Cardinality(Sufficient) = 2
    /\ qresult.selectedMarket = qmarkets[2].coin
    /\ ~ScoreLeq(qresult.alternativesConsidered[2], qresult.alternativesConsidered[1])

\* C5: when k of the n fetches succeed, 0 < k < n, quote does not fail on
\* account of the failed ones: it is computed from the k responding markets,
\* selects one of them and warns "Partial market data: k/n markets
\* responded"; when all n succeed there is no such warning.
C5_PartialData ==
    QuoteDone =>
        LET k == Cardinality(Responded)
            n == Len(qmarkets)
        IN  /\ (0 < k /\ k < n) =>
                /\ ~IsError(qresult, "MarketDataUnavailable")
                /\ qresult.kind = "quote" =>
                    /\ qresult.selectedMarket \in RespondedCoins
                    /\ {a.coin : a \in SeqRange(qresult.alternativesConsidered)}
                          = RespondedCoins
                    /\ Len(qresult.alternativesConsidered) = k
                    /\ PartialWarning(k, n) \in SeqRange(qresult.warnings)
            /\ (k = n /\ qresult.kind = "quote") =>
                \A w \in SeqRange(qresult.warnings) : w.w # "Partial market data"

C5_Witness ==
    /\ QuoteDone
    /\ Len(qmarkets) = 2
    /\ qfetch[1].st = "failed"
    /\ qfetch[2].st = "ok"
    /\ qresult.kind = "quote"
    /\ qresult.warnings = <<PartialWarning(1, 2)>>

\* C6: a book fetch that never completes does not stall quote, quote_split
\* or aggregate: the timeout settles it as failed, the operation completes,
\* and its result holds no market whose fetch timed out.
TimedOutCoins == {qmarkets[i].coin : i \in {j \in 1..Len(qfetch) : qfetch[j].st = "timeout"}}
ResultCoins ==
    CASE qresult.kind = "quote" ->
            {a.coin : a \in SeqRange(qresult.alternativesConsidered)}
      [] qresult.kind = "splitQuote" ->
            {b.coin : b \in SeqRange(qresult.marketBooks)}
      [] qresult.kind = "book" ->
            {b.coin : b \in SeqRange(qresult.marketBooks)}
            \cup UNION {{x.coin : x \in SeqRange(l.sources)} :
                          l \in SeqRange(qresult.bids) \cup SeqRange(qresult.asks)}
      [] OTHER -> {}

C6_TimeoutDoesNotStall ==
    /\ [](qpc = "done" => ResultCoins \cap TimedOutCoins = {})
    /\ \A op \in {"quote", "quoteSplit", "aggregate"} :
          (qpc = "fetching" /\ qop = op) ~> (qpc = "done" /\ qop = op)

C6_Witness ==
    /\ qpc = "done"
    /\ qop = "quoteSplit"
    /\ Len(qmarkets) = 2
    /\ qfetch[1].st = "timeout"
    /\ qfetch[2].st = "ok"
    /\ qresult.kind = "splitQuote"

\* ----------------------------------------------------------------- C7
\* The assets of a venue answer that a complete index lists: those of a
\* dex whose contexts were fetched, not delisted, with a context of
\* their own.
Listed(data) ==
    UNION {{<<d, i>> : i \in {j \in 1..Len(data.allMetas[d].universe) :
                                /\ data.ctxResults[d].status = "fulfilled"
                                /\ ~data.allMetas[d].universe[j].isDelisted
                                /\ j <= Len(data.ctxResults[d].assetCtxs)}} :
           d \in 1..Len(data.allMetas)}

ListedAsset(data, l) == data.allMetas[l[1]].universe[l[2]]

KeyOf(data, l) ==
    ToUpperCase(IF l[1] = 1 THEN AssetName(ListedAsset(data, l))
                ELSE ExtractBaseAsset(ListedAsset(data, l)))

ExpectedKeys(data) == {KeyOf(data, l) : l \in Listed(data)}

ExpectedCoins(data, key) ==
    {AssetName(ListedAsset(data, l)) : l \in {m \in Listed(data) : KeyOf(data, m) = key}}

CoinsOf(markets) == {markets[k].coin : k \in 1..Len(markets)}

CompleteMarkets(markets, data, key) ==
    /\ CoinsOf(markets) = ExpectedCoins(data, key)
    /\ Len(markets) = Cardinality(ExpectedCoins(data, key))

CompleteGroup(g, data) ==
    /\ g.markets # <<>>
    /\ CompleteMarkets(g.markets, data, g.baseAsset)
    /\ g.hasAlternatives = (Len(g.markets) > 1)

CompleteGroups(index, data, keys) ==
    /\ {index[k].baseAsset : k \in 1..Len(index)} = keys
    /\ Len(index) = Cardinality(keys)
    /\ \A k \in 1..Len(index) : CompleteGroup(index[k], data)

ReadComplete(r) ==
    CASE r.op = "getMarkets" ->
            CompleteMarkets(r.result, r.data, ToUpperCase(r.arg))
      [] r.op = "getGroup" ->
            IF ExpectedCoins(r.data, ToUpperCase(r.arg)) = {} THEN r.result = <<>>
            ELSE /\ Len(r.result) = 1
                 /\ r.result[1].baseAsset = ToUpperCase(r.arg)
                 /\ CompleteGroup(r.result[1], r.data)
      [] r.op = "getAllGroups" ->
            CompleteGroups(r.result, r.data, ExpectedKeys(r.data))
      [] OTHER ->
            CompleteGroups(r.result, r.data,
                {key \in ExpectedKeys(r.data) :
                    Cardinality(ExpectedCoins(r.data, key)) > 1})

\* C7: whatever discover() runs are in flight, the published index is the
\* complete index of what the venue answered to the most recently completed
\* successful discover() (empty before the first), and every registry read
\* returns exactly the markets and groups of that answer; a discover() that
\* fails publishes nothing.
C7_ReadsSeeLastCompleteIndex ==
    /\ CompleteGroups(groups, lastData, ExpectedKeys(lastData))
    /\ Reading => ReadComplete(lastRead)

\* A read answered with a non-empty result while another discover() run,
\* holding different venue metadata, waits for its asset contexts.
C7_Witness ==
    /\ Reading
    /\ lastRead.result # <<>>
    /\ \E p \in DOMAIN disc :
        /\ disc[p].pc = "ctxs"
        /\ disc[p].allMetas # lastRead.data.allMetas

\* ------------------------------------------------- traces of calls
IssuedAt(t, name) == {k \in 1..Len(t) : t[k].call = name /\ t[k].phase = "issued"}
Happened(t, ev) == \E k \in 1..Len(t) : t[k] = ev
SplitCalls == {c \in DOMAIN calls : calls[c].kind = "executeSplit"}
PrepareSettled(call) == call.prep # <<>>
PrepareFailed(call) == call.prep # <<>> /\ ~call.prep[1].success

PrepareVenueCalls ==
    {"setDexAbstraction", "spotMeta", "usdClassTransfer", "l2Book", "placeOrder"}

\* Where in a trace a venue call of prepare failed or a spot book came
\* back without asks.
PrepareFailurePoints(t) ==
    {k \in 1..Len(t) :
        \/ t[k].call \in PrepareVenueCalls /\ t[k].phase = "failed"
        \/ t[k].call = "l2Book" /\ t[k].phase = "ok" /\ t[k].status = "no asks"}

AnsweredSpotOrders(t) ==
    SelectSeq(t, LAMBDA e : e.call = "placeOrder" /\ e.phase = "ok")

\* The tokens prepare's loop swaps into, in plan order.
PlanSwaps(plan) ==
    SelectSeq(plan.requirements, LAMBDA r : r.shortfall > 0 /\ r.token # "USDC")

\* C2: prepare always returns a receipt (it never rejects); after a failed
\* venue call or a spot book without asks the receipt has success = false
\* and an error, no transfer and no order is issued after that point, and
\* swapsExecuted lists, in plan order, exactly the spot orders that were
\* placed and answered, each with its requirement's token and shortfall.
C2_PrepareNeverThrows ==
    \A c \in SplitCalls :
        LET call == calls[c]
            t == call.trace
            answered == AnsweredSpotOrders(t)
            swaps == PlanSwaps(call.cplan)
        IN  /\ PrepareSettled(call) =>
                /\ call.prep[1].returned
                /\ call.prep[1].swapsExecuted = call.swapsExecuted
            /\ Len(call.swapsExecuted) = Len(answered)
            /\ Len(answered) <= Len(swaps)
            /\ \A k \in 1..Len(answered) :
                /\ call.swapsExecuted[k].to = answered[k].token
                /\ call.swapsExecuted[k].to = swaps[k].token
                /\ call.swapsExecuted[k].amount = swaps[k].shortfall
            /\ \A k \in PrepareFailurePoints(t) :
                /\ PrepareFailed(call)
                /\ call.prep[1].error # ""
                /\ \A j \in (k + 1)..Len(t) :
                    ~(/\ t[j].phase = "issued"
                      /\ t[j].call \in {"usdClassTransfer", "placeOrder", "batchOrders"})

\* prepare failed on a rejected venue call after one swap had been placed
\* and answered.
C2_Witness ==
    \E c \in SplitCalls :
        /\ PrepareFailed(calls[c])
        /\ Len(calls[c].prep[1].swapsExecuted) = 1
        /\ \E k \in PrepareFailurePoints(calls[c].trace) :
            calls[c].trace[k].phase = "failed"

\* ----------------------------------------------------------------- C8
ApprovalsIssued ==
    UNION {{<<c, k>> : k \in IssuedAt(calls[c].trace, "approveBuilderFee")} :
           c \in DOMAIN calls}

\* C8: with a builder configured, however the execute / executeSplit calls
\* on one executor overlap, at most one approveBuilderFee request is ever
\* issued to the venue.
C8_OneApprovalUnderRace ==
    builder # NoBuilder => Cardinality(ApprovalsIssued) <= 1

\* One call waits for its approveBuilderFee while another call, started
\* meanwhile, is already past its own builder-fee step.
C8_Witness ==
    \E c1, c2 \in DOMAIN calls :
        /\ c1 # c2
        /\ calls[c1].pc = "approveBuilderFee"
        /\ calls[c2].pc \notin {"idle", "done", "threw"}

\* ----------------------------------------------------------------- C9
FeeReadsIssued ==
    UNION {{<<c, k>> : k \in IssuedAt(calls[c].trace, "maxBuilderFee")} :
           c \in DOMAIN calls}

\* C9: with a builder configured, over all calls made on one executor the
\* authorization is read at most once and approval requested at most once,
\* both by the first call and before it submits anything; a call started
\* later issues neither, whatever the first check came to.
C9_CheckOncePerSession ==
    builder # NoBuilder =>
        /\ Cardinality(FeeReadsIssued) <= 1
        /\ \A c \in DOMAIN calls :
            LET t == calls[c].trace
            IN  /\ calls[c].seq > 1 =>
                    /\ IssuedAt(t, "maxBuilderFee") = {}
                    /\ IssuedAt(t, "approveBuilderFee") = {}
                /\ calls[c].seq = 1 => t[1] = Ev("maxBuilderFee", "issued", "", "")
                /\ \A k \in IssuedAt(t, "approveBuilderFee") :
                    /\ calls[c].seq = 1
                    /\ \A j \in 1..(k - 1) :
                        t[j].call \in {"maxBuilderFee", "approveBuilderFee"}

\* The first call's authorization read failed, and a later call has run to
\* its receipt.
C9_Witness ==
    \E c1, c2 \in DOMAIN calls :
        /\ calls[c1].seq = 1
        /\ Happened(calls[c1].trace, Ev("maxBuilderFee", "failed", "", ""))
        /\ calls[c2].seq = 2
        /\ calls[c2].pc = "done"

\* ---------------------------------------------------------------- C10
FeeStepFailed(t) ==
    \E k \in 1..Len(t) :
        t[k].phase = "failed" /\ t[k].call \in {"maxBuilderFee", "approveBuilderFee"}

\* C10: a call whose maxBuilderFee or approveBuilderFee was rejected still
\* goes on to submit: an execute call issues its placeOrder and its
\* receipt is the one its order status gives; an executeSplit call goes on
\* to the estimate and the batch, and its receipt is the one the batch
\* statuses give.
C10_FeeFailureDoesNotAbort ==
    \A c \in DOMAIN calls :
        LET call == calls[c]
            t == call.trace
        IN  FeeStepFailed(t) =>
                /\ call.kind = "execute" =>
                    /\ IssuedAt(t, "placeOrder") # {}
                    /\ call.pc = "done" =>
                        call.receipt = ExecutionReceipt(call.legs[1], t[Len(t)].status)
                /\ call.kind = "executeSplit" =>
                    /\ IssuedAt(t, "estimateRequirements") # {}
                    /\ call.pc = "done" =>
                        /\ IssuedAt(t, "batchOrders") # {}
                        /\ call.receipt.error = ""
                        /\ Len(call.receipt.legs) = Len(call.legs)
                        /\ call.receipt.success =
                            \A k \in 1..Len(call.legs) : call.receipt.legs[k].success

\* An execute call got its fill although its approveBuilderFee was
\* rejected.
C10_Witness ==
    \E c \in DOMAIN calls :
        /\ calls[c].kind = "execute"
        /\ Happened(calls[c].trace, Ev("approveBuilderFee", "failed", "", ""))
        /\ calls[c].pc = "done"
        /\ calls[c].receipt.success

\* ---------------------------------------------------------------- C11
\* The estimate has answered and, if it asked for swaps, prepare returned
\* success.
PastPreparation(call) ==
    /\ Happened(call.trace, Ev("estimateRequirements", "ok", "", ""))
    /\ call.cplan.swapsNeeded => Happened(call.trace, Ev("prepare", "ok", "", ""))

LegCoins(call) == {call.legs[k].market.coin : k \in 1..Len(call.legs)}

\* C11: an executeSplit call that is past collateral preparation has issued
\* exactly one batchOrders call, holding one order per leg of the plan in
\* plan order; no executeSplit call issues a second batch, and none issues a
\* placeOrder for the coin of one of its legs.
C11_AllLegsInOneBatch ==
    \A c \in SplitCalls :
        LET call == calls[c]
            t == call.trace
        IN  /\ Cardinality(IssuedAt(t, "batchOrders")) <= 1
            /\ \A k \in IssuedAt(t, "placeOrder") : t[k].token \notin LegCoins(call)
            /\ call.pc # "placeOrder"
            /\ PastPreparation(call) =>
                /\ Cardinality(IssuedAt(t, "batchOrders")) = 1
                /\ Len(call.batch) = Len(call.legs)
                /\ \A k \in 1..Len(call.legs) :
                    /\ call.batch[k].coin = call.legs[k].market.coin
                    /\ call.batch[k].size = call.legs[k].size

\* A two-leg plan whose batch went out after prepare had swapped.
C11_Witness ==
    \E c \in SplitCalls :
        /\ Len(calls[c].legs) = 2
        /\ calls[c].legs[1] # calls[c].legs[2]
        /\ calls[c].cplan.swapsNeeded
        /\ Len(calls[c].swapsExecuted) > 0
        /\ calls[c].pc = "batchOrders"
        /\ Len(calls[c].batch) = 2

\* ---------------------------------------------------------------- C12
BatchAnswered(call) == Happened(call.trace, Ev("batchOrders", "ok", "", ""))

\* C12: in the receipt executeSplit builds from the statuses of its batch,
\* success is true exactly when every leg receipt's success is true, there
\* is one leg receipt per leg, and a leg answered with an error status has
\* an unsuccessful leg receipt and makes the whole receipt unsuccessful.
C12_SuccessIsAndOfLegs ==
    \A c \in SplitCalls :
        LET call == calls[c]
            r == call.receipt
        IN  BatchAnswered(call) =>
                /\ call.pc = "done"
                /\ Len(r.legs) = Len(call.legs)
                /\ r.success <=> \A k \in 1..Len(r.legs) : r.legs[k].success
                /\ \A k \in 1..Len(call.statuses) :
                    /\ r.legs[k].success <=> call.statuses[k] # "error"
                    /\ call.statuses[k] = "error" => ~r.success

\* Two legs, the first filled and the second answered with an error.
C12_Witness ==
    \E c \in SplitCalls :
        /\ BatchAnswered(calls[c])
        /\ calls[c].statuses = <<"filled", "error">>
        /\ calls[c].receipt.legs[1].success
        /\ ~calls[c].receipt.success


\* ------------------------------------------------- exact arithmetic
\* Fractions in lowest terms with a positive denominator: the quantities
\* the optimizer derives by division.
RECURSIVE GCD(_, _)
GCD(a, b) == IF b = 0 THEN a ELSE GCD(b, a % b)

Frac(n, d) ==
    LET g == GCD(Abs(n), d) IN [num |-> n \div g, den |-> d \div g]

Whole(n) == [num |-> n, den |-> 1]

\* Sums go over the least common denominator and products cancel
\* crosswise first, so that no intermediate value outgrows the result.
FAdd(a, b) ==
    LET g == GCD(a.den, b.den)
    IN  Frac(a.num * (b.den \div g) + b.num * (a.den \div g), (a.den \div g) * b.den)

FNeg(a) == [num |-> -a.num, den |-> a.den]
FSub(a, b) == FAdd(a, FNeg(b))

FMul(a, b) ==
    LET g1 == GCD(Abs(a.num), b.den)
        g2 == GCD(Abs(b.num), a.den)
    IN  IF a.num = 0 \/ b.num = 0 THEN [num |-> 0, den |-> 1]
        ELSE [num |-> (a.num \div g1) * (b.num \div g2),
              den |-> (a.den \div g2) * (b.den \div g1)]

\* b > 0
FDiv(a, b) == FMul(a, [num |-> b.den, den |-> b.num])
FLeq(a, b) == FSub(a, b).num <= 0
FLt(a, b) == FSub(a, b).num < 0
FMin(a, b) == IF FLeq(a, b) THEN a ELSE b
FAbs(a) == [num |-> Abs(a.num), den |-> a.den]

\* ------------------------------------------------- SplitOptimizer
ToleranceDen == 1000   \* remaining > size * 0.001, as size / 1000

\* fills.get(coin) after one more fill, the Map in insertion order.
RECURSIVE AddFill(_, _, _, _)
AddFill(fills, coin, sourceFill, px) ==
    IF fills = <<>>
    THEN << [coin |-> coin, size |-> sourceFill,
             cost |-> FMul(sourceFill, Whole(px))] >>
    ELSE IF Head(fills).coin = coin
    THEN << [coin |-> coin, size |-> FAdd(Head(fills).size, sourceFill),
             cost |-> FAdd(Head(fills).cost, FMul(sourceFill, Whole(px)))] >>
         \o Tail(fills)
    ELSE <<Head(fills)>> \o AddFill(Tail(fills), coin, sourceFill, px)

\* The loop over one level's sources: each takes its proportion of the fill.
RECURSIVE FillSources(_, _, _, _, _, _)
FillSources(fills, levelFilled, sources, fillFromLevel, sourceTotal, px) ==
    IF sources = <<>> THEN [fills |-> fills, levelFilled |-> levelFilled]
    ELSE LET source == Head(sources)
             sourceProportion == Frac(source.sz, sourceTotal)
             sourceFill == FMin(FMul(fillFromLevel, sourceProportion),
                                Whole(source.sz))
         IN  FillSources(AddFill(fills, source.coin, sourceFill, px),
                         FAdd(levelFilled, sourceFill), Tail(sources),
                         fillFromLevel, sourceTotal, px)

\* The greedy walk of the merged levels: [fills, remaining].
RECURSIVE WalkLevels(_, _, _)
WalkLevels(fills, remaining, levels) ==
    IF levels = <<>> \/ remaining.num <= 0
    THEN [fills |-> fills, remaining |-> remaining]
    ELSE LET level == Head(levels)
             fillFromLevel == FMin(remaining, Whole(level.sz))
             filled == FillSources(fills, Whole(0), level.sources, fillFromLevel,
                                   SumSz(level.sources), level.px)
         IN  WalkLevels(filled.fills, FSub(remaining, filled.levelFilled),
                        Tail(levels))

\* markets.get(coin): <<market>>, or <<>> for undefined.
RECURSIVE MapGet(_, _)
MapGet(markets, coin) ==
    IF markets = <<>> THEN <<>>
    ELSE IF Head(markets).coin = coin THEN <<Head(markets)>>
    ELSE MapGet(Tail(markets), coin)

\* The allocations built from the fills: a coin missing from the lookup,
\* or a fill of no size, is skipped.
RECURSIVE RawAllocations(_, _)
RawAllocations(fills, markets) ==
    IF fills = <<>> THEN <<>>
    ELSE LET fill == Head(fills)
             market == MapGet(markets, fill.coin)
         IN  (IF market = <<>> \/ fill.size.num <= 0 THEN <<>>
              ELSE << [market |-> market[1], size |-> fill.size,
                       estimatedCost |-> fill.cost,
                       estimatedAvgPrice |-> FDiv(fill.cost, fill.size),
                       proportion |-> Whole(0)] >>)
             \o RawAllocations(Tail(fills), markets)

\* allocations.sort((a, b) => b.size - a.size): stable, largest first.
RECURSIVE InsertBySize(_, _)
InsertBySize(sorted, x) ==
    IF sorted = <<>> THEN <<x>>
    ELSE IF FLt(Head(sorted).size, x.size) THEN <<x>> \o sorted
    ELSE <<Head(sorted)>> \o InsertBySize(Tail(sorted), x)

RECURSIVE SortBySize(_)
SortBySize(s) ==
    IF s = <<>> THEN <<>>
    ELSE InsertBySize(SortBySize(SubSeq(s, 1, Len(s) - 1)), s[Len(s)])

\* Mutant: an allocation under minSize is dropped, not folded.
RECURSIVE FoldDustDropped(_, _, _, _)
FoldDustDropped(primary, kept, rest, minSize) ==
    IF rest = <<>> THEN <<primary>> \o kept
    ELSE IF FLeq(minSize, Head(rest).size)
    THEN FoldDustDropped(primary, Append(kept, Head(rest)), Tail(rest), minSize)
    ELSE FoldDustDropped(primary, kept, Tail(rest), minSize)

\* filterDust's loop: an allocation under minSize is folded into the
\* primary at the primary's average price; the primary's average is
\* recomputed after the loop.
RECURSIVE FoldDust(_, _, _, _)
FoldDust(primary, kept, rest, minSize) ==
    IF rest = <<>>
    THEN << [primary EXCEPT !.estimatedAvgPrice =
                IF primary.size.num > 0
                THEN FDiv(primary.estimatedCost, primary.size) ELSE @] >> \o kept
    ELSE LET alloc == Head(rest)
         IN  IF FLeq(minSize, alloc.size)
             THEN FoldDust(primary, Append(kept, alloc), Tail(rest), minSize)
             ELSE FoldDust([primary EXCEPT
                                !.size = FAdd(@, alloc.size),
                                !.estimatedCost =
                                    FAdd(@, FMul(alloc.size, primary.estimatedAvgPrice))],
                           kept, Tail(rest), minSize)

\* Mutant: the largest allocation has to reach minSize as the others do.
FilterDustEvery(allocations, minSize) ==
    SelectSeq(SortBySize(allocations), LAMBDA a : FLeq(minSize, a.size))

FilterDust(allocations, minSize) ==
    IF Len(allocations) <= 1 THEN allocations
    ELSE LET sorted == SortBySize(allocations)
         IN  FoldDust(sorted[1], <<>>, Tail(sorted), minSize)

RECURSIVE SumOf(_, _)
SumOf(allocations, field) ==
    IF allocations = <<>> THEN Whole(0)
    ELSE FAdd(Head(allocations)[field], SumOf(Tail(allocations), field))

\* optimize() returns null.
NoSplit ==
    [ok |-> FALSE, allocations |-> <<>>, totalSize |-> Whole(0),
     totalCost |-> Whole(0), aggregateAvgPrice |-> Whole(0), mid2 |-> 0,
     aggregatePriceImpact |-> Whole(0)]

\* optimize() from the allocations on: totals, proportions, mid, impact.
\* The mid is kept as twice the mid, and the impact as the fraction of mid
\* that the code multiplies by 10000 to get aggregatePriceImpactBps.
SplitResultOf(filtered, book) ==
    LET totalSize == SumOf(filtered, "size")
        totalCost == SumOf(filtered, "estimatedCost")
        aggregateAvgPrice == FDiv(totalCost, totalSize)
        mid2 == GetMidPrice2(book)
    IN  [ok |-> TRUE,
         allocations |->
            [k \in 1..Len(filtered) |->
                [filtered[k] EXCEPT !.proportion = FDiv(filtered[k].size, totalSize)]],
         totalSize |-> totalSize,
         totalCost |-> totalCost,
         aggregateAvgPrice |-> aggregateAvgPrice,
         mid2 |-> mid2,
         aggregatePriceImpact |->
            IF mid2 > 0
            THEN FDiv(FAbs(FSub(aggregateAvgPrice, Frac(mid2, 2))), Frac(mid2, 2))
            ELSE Whole(0)]

\* optimize(book, side, size, markets, minAllocationSize)
Optimize(book, side, size, markets, minAllocationSize) ==
    LET levels == IF side = "buy" THEN book.asks ELSE book.bids
    IN  IF Len(levels) = 0 THEN NoSplit
        ELSE
        LET walked == WalkLevels(<<>>, Whole(size), levels)
        IN  IF FLt(Frac(size, ToleranceDen), walked.remaining) THEN NoSplit
            ELSE
            LET filtered == FilterDust(RawAllocations(walked.fills, markets),
                                       Whole(minAllocationSize))
            IN  IF Len(filtered) = 0 THEN NoSplit
                ELSE SplitResultOf(filtered, book)

\* ------------------------------------------------- limit prices
\* slippage = 0.01, the default of quote and quoteSplit.
DefaultSlippage == Frac(1, 100)

\* Long division: n more decimal digits of r / den appended to acc.
RECURSIVE Digits(_, _, _, _)
Digits(r, den, n, acc) ==
    IF n = 0 THEN [acc |-> acc, r |-> r]
    ELSE Digits((r * 10) % den, den, n - 1, acc * 10 + (r * 10) \div den)

\* toFixed(6) of a price that is not negative: the nearest multiple of
\* 0.000001, kept as the number of millionths.
ToFixed6(f) ==
    LET d == Digits(f.num % f.den, f.den, 6, f.num \div f.den)
    IN  IF 2 * d.r >= f.den THEN d.acc + 1 ELSE d.acc

\* avgPrice * (1 + slippage) for a buy, avgPrice * (1 - slippage) for a sell
SlippagePrice(side, avgPrice, slippage) ==
    IF side = "buy" THEN FMul(avgPrice, FAdd(Whole(1), slippage))
    ELSE FMul(avgPrice, FSub(Whole(1), slippage))

\* The plan quote() builds from the simulation of the selected market.
PlanOf(sim, side, size, slippage) ==
    [side |-> side, size |-> size, tif |-> "Ioc", slippage |-> slippage,
     price |-> ToFixed6(SlippagePrice(side, Frac(sim.totalCost, size), slippage))]

\* The legs quoteSplit() builds from the allocations.
LegsOf(allocations, side, slippage) ==
    [k \in 1..Len(allocations) |->
        [market |-> allocations[k].market, side |-> side,
         size |-> allocations[k].size, tif |-> "Ioc", slippage |-> slippage,
         price |-> ToFixed6(SlippagePrice(side, allocations[k].estimatedAvgPrice,
                                          slippage))]]

\* ------------------------------------------------- direct calls
\* simulate, score and optimize called as the unit tests call them: one
\* call at a time, the arguments and the result kept until it returns.
MaxSources == 3     \* markets whose books are merged for optimize

\* Sizes handed to optimize are in thousandths of a lot, so that sizes
\* within and beyond the tolerance of a whole number of lots occur; the
\* prices are small ones, asks above bids.
OptimizePrices(side) == IF side = "buy" THEN {3, 4} ELSE {2, 1}
OptimizePassivePrice(side) == IF side = "buy" THEN 2 ELSE 3

OptimizeLevels(side) ==
    [px : OptimizePrices(side), sz : {ToleranceDen * k : k \in 1..MaxSz}]

OptimizeActiveSides(side) ==
    UNION {{s \in [1..n -> OptimizeLevels(side)] : Ordered(side, s)} : n \in 0..MaxLevels}

OptimizePassiveSide(side) ==
    <<[px |-> OptimizePassivePrice(side), sz |-> ToleranceDen]>>

OptimizeSizes == {ToleranceDen * k : k \in 1..MaxSize} \cup {ToleranceDen + e : e \in 1..2}
MinAllocationSizes == {1, ToleranceDen + 1}
SwapCosts == {Undefined, <<0>>, <<5>>, <<120>>}

UnitMarkets(n) == [i \in 1..n |-> TslaMarket(i, <<0, 1, -1, 2>>)]

\* The entries of markets whose position is in S, in order.
RECURSIVE Pick(_, _, _)
Pick(markets, i, S) ==
    IF i > Len(markets) THEN <<>>
    ELSE (IF i \in S THEN <<markets[i]>> ELSE <<>>) \o Pick(markets, i + 1, S)

SimulateCall(book, side, size) ==
    /\ unit.fn = "none"
    /\ unit' = [fn |-> "simulate", book |-> book, side |-> side, size |-> size,
                result |-> Simulate(book, side, size)]
    /\ UNCHANGED <<groups, rvars, qvars, evars, fvars, pvars>>

\* score() of the simulation a simulate() call has just returned.
ScoreCall(market, userCollateral, swapCostBps) ==
    /\ unit.fn = "simulate"
    /\ unit.result.ok
    /\ unit' = [fn |-> "score", simulation |-> unit.result, market |-> market,
                side |-> unit.side, userCollateral |-> userCollateral,
                swapCostBps |-> swapCostBps,
                result |-> ScoreWith(unit.result, market, unit.side,
                                     userCollateral, swapCostBps)]
    /\ UNCHANGED <<groups, rvars, qvars, evars, fvars, pvars>>

\* aggregate(): the markets' books merged, every fetch answered.
AggregateCall(markets, books) ==
    /\ unit.fn = "none"
    /\ LET fetch == [i \in 1..Len(books) |-> [st |-> "ok", book |-> books[i]]]
       IN  unit' = [fn |-> "aggregate", markets |-> markets, books |-> books,
                    result |-> Aggregate(markets, fetch)]
    /\ UNCHANGED <<groups, rvars, qvars, evars, fvars, pvars>>

\* optimize() of the book aggregate() has just returned.
OptimizeCall(side, size, lookup, minAllocationSize) ==
    /\ unit.fn = "aggregate"
    /\ unit' = [fn |-> "optimize", markets |-> unit.markets, books |-> unit.books,
                book |-> unit.result, side |-> side, size |-> size,
                lookup |-> lookup, minAllocationSize |-> minAllocationSize,
                result |-> Optimize(unit.result, side, size, lookup,
                                    minAllocationSize)]
    /\ UNCHANGED <<groups, rvars, qvars, evars, fvars, pvars>>

UnitReturn ==
    /\ unit.fn # "none"
    /\ unit' = NoUnit
    /\ UNCHANGED <<groups, rvars, qvars, evars, fvars, pvars>>

InitUnit ==
    /\ groups = <<>>
    /\ RIdle
    /\ QIdle
    /\ EIdle
    /\ FIdle
    /\ UIdle
    /\ PIdle

\* Books whose second level is three percent away from the first.
SteepBooks(side) ==
    IF side = "buy"
    THEN {[bids |-> <<[px |-> 99, sz |-> 1]>>,
           asks |-> <<[px |-> 100, sz |-> 1], [px |-> 103, sz |-> 2]>>]}
    ELSE {[bids |-> <<[px |-> 99, sz |-> 1], [px |-> 96, sz |-> 2]>>,
           asks |-> <<[px |-> 100, sz |-> 1]>>]}

CallSimulate ==
    /\ unit.fn = "none"
    /\ \E side \in Sides :
        \E book \in BooksFor(side) \cup SteepBooks(side), size \in 1..MaxSize :
            SimulateCall(book, side, size)

CallScore ==
    /\ unit.fn = "simulate"
    /\ \E i \in 1..Len(CoinNames), f \in FundingProfiles,
       userCollateral \in UserCollaterals, swapCostBps \in SwapCosts :
        ScoreCall(TslaMarket(i, f), userCollateral, swapCostBps)

\* The books are deep on one side; the other side of the merged book comes
\* from the first market only.
CallAggregate ==
    /\ unit.fn = "none"
    /\ \E n \in 1..MaxSources, side \in Sides :
        \E active \in [1..n -> OptimizeActiveSides(side)] :
            LET passive == OptimizePassiveSide(side)
                books == [i \in 1..n |->
                            IF side = "buy"
                            THEN [bids |-> IF i = 1 THEN passive ELSE <<>>,
                                  asks |-> active[i]]
                            ELSE [bids |-> active[i],
                                  asks |-> IF i = 1 THEN passive ELSE <<>>]]
            IN  AggregateCall(UnitMarkets(n), books)

CallOptimize ==
    /\ unit.fn = "aggregate"
    /\ \E side \in Sides, size \in OptimizeSizes,
          S \in SUBSET (1..Len(unit.markets)),
          minAllocationSize \in MinAllocationSizes :
            OptimizeCall(side, size, Pick(unit.markets, 1, S), minAllocationSize)

\* estimateRequirements(), the two balance reads answered.
EstimateCall(allocations, balanceMap, perpUsdcBalance) ==
    /\ unit.fn = "none"
    /\ unit' = [fn |-> "estimateRequirements", allocations |-> allocations,
                balanceMap |-> balanceMap, perpUsdcBalance |-> perpUsdcBalance,
                result |-> EstimateRequirements(allocations, balanceMap,
                                                perpUsdcBalance)]
    /\ UNCHANGED <<groups, rvars, qvars, evars, fvars, pvars>>

\* estimateSwapCost(), l2Book(toToken) settled.
SwapCostCall(fetch, amount) ==
    /\ unit.fn = "none"
    /\ unit' = [fn |-> "estimateSwapCost", fetch |-> fetch, amount |-> amount,
                result |-> EstimateSwapCost(fetch, amount)]
    /\ UNCHANGED <<groups, rvars, qvars, evars, fvars, pvars>>

\* The plan quote() makes of the simulation simulate() has just returned.
PlanCall(slippage) ==
    /\ unit.fn = "simulate"
    /\ unit.result.ok
    /\ unit' = [fn |-> "plan", book |-> unit.book, side |-> unit.side,
                size |-> unit.size, simulation |-> unit.result,
                result |-> PlanOf(unit.result, unit.side, unit.size, slippage)]
    /\ UNCHANGED <<groups, rvars, qvars, evars, fvars, pvars>>

\* The legs quoteSplit() makes of the allocations optimize() has just
\* returned.
LegsCall(slippage) ==
    /\ unit.fn = "optimize"
    /\ unit.result.ok
    /\ unit' = [fn |-> "legs", markets |-> unit.markets, books |-> unit.books,
                book |-> unit.book, side |-> unit.side, size |-> unit.size,
                allocations |-> unit.result.allocations,
                result |-> LegsOf(unit.result.allocations, unit.side, slippage)]
    /\ UNCHANGED <<groups, rvars, qvars, evars, fvars, pvars>>

\* Allocations as the estimate reads them: a collateral and a cost.
CollateralTokens == {"USDC", "USDH", "USDT0"}
UnitLegs ==
    {[market |-> LegMarket(token), size |-> 1, estimatedCost |-> cost] :
        token \in CollateralTokens, cost \in {2, 3}}
UnitPlans == UNION {[1..n -> UnitLegs] : n \in 1..MaxLegs}

\* Spot balances: a token the user never held has no entry.
UnitBalances == UNION {[held -> {1, 4}] : held \in SUBSET CollateralTokens}
PerpBalances == {0, 5}

CallEstimate ==
    /\ unit.fn = "none"
    /\ \E allocations \in UnitPlans, balanceMap \in UnitBalances,
          perpUsdcBalance \in PerpBalances :
            EstimateCall(allocations, balanceMap, perpUsdcBalance)

CallSwapCost ==
    /\ unit.fn = "none"
    /\ \E amount \in 1..MaxSize :
          \/ SwapCostCall([st |-> "failed", book |-> NoBook], amount)
          \/ \E book \in BooksFor("buy") :
                SwapCostCall([st |-> "ok", book |-> book], amount)

CallPlan == PlanCall(DefaultSlippage)
CallLegs == LegsCall(DefaultSlippage)

NextUnit ==
    \/ CallSimulate
    \/ CallScore
    \/ CallAggregate
    \/ CallOptimize
    \/ CallEstimate
    \/ CallSwapCost
    \/ CallPlan
    \/ CallLegs
    \/ UnitReturn

SpecUnit == InitUnit /\ [][NextUnit]_vars


\* ------------------------------------------------- simulate, score
\* What a walk of the levels takes from level k when it stops as soon as
\* size is filled, stated level by level.
Before(levels, k) == SumSz(SubSeq(levels, 1, k - 1))
Consumed(levels, size, k) == Min(levels[k].sz, Max(0, size - Before(levels, k)))

RECURSIVE ConsumedCost(_, _, _)
ConsumedCost(levels, size, k) ==
    IF k = 0 THEN 0
    ELSE ConsumedCost(levels, size, k - 1) + Consumed(levels, size, k) * levels[k].px

LastConsumed(levels, size) ==
    CHOOSE k \in 1..Len(levels) :
        /\ Consumed(levels, size, k) > 0
        /\ \A j \in (k + 1)..Len(levels) : Consumed(levels, size, j) = 0

Between(x, a, b) == (a <= x /\ x <= b) \/ (b <= x /\ x <= a)

\* C16: simulate(book, side, size) fails exactly when the walked side (asks
\* for buy, bids for sell) offers less than size in total; when it
\* succeeds, filledSize = size and the cost is the sum over the levels, in
\* order, of what is consumed of each times its price, so the average
\* price (totalCost / size) lies between the best price and the price of
\* the last level consumed.
C16_SimulateWalksTheBook ==
    unit.fn = "simulate" =>
        LET levels == WalkedSide(unit.book, unit.side)
            r == unit.result
        IN  /\ ~r.ok <=> SumSz(levels) < unit.size
            /\ r.ok =>
                /\ r.filledSize = unit.size
                /\ r.totalCost = ConsumedCost(levels, unit.size, Len(levels))
                /\ Between(r.totalCost,
                           levels[1].px * unit.size,
                           levels[LastConsumed(levels, unit.size)].px * unit.size)

\* A fill that takes the first level whole and a part of the second, at an
\* average strictly inside the two prices.
C16_Witness ==
    /\ unit.fn = "simulate"
    /\ unit.result.ok
    /\ LET levels == WalkedSide(unit.book, unit.side)
       IN  /\ Len(levels) = 2
           /\ levels[1].sz < unit.size
           /\ unit.size < SumSz(levels)
           /\ unit.result.totalCost # levels[1].px * unit.size
           /\ unit.result.totalCost # levels[2].px * unit.size

\* The funding rate of a market: the model keeps it in units of 1/10000.
FundingRate(market) == Frac(market.funding, 10000)

OptimizeReturned == unit.fn = "optimize" /\ unit.result.ok

\* The size the walked side of the merged book offers in total.
Offered == SumSz(IF unit.side = "buy" THEN unit.book.asks ELSE unit.book.bids)
Shortfall == Max(0, unit.size - Offered)
WithinTolerance == Shortfall * ToleranceDen <= unit.size

\* C18: whenever optimize returns a result for requested size s, whatever
\* the market lookup and minAllocationSize, the sizes of the allocations
\* sum to s within the tolerance of s * 0.001, and totalSize is that sum.
C18_AllocationsSumToSize ==
    OptimizeReturned =>
        LET sum == SumOf(unit.result.allocations, "size")
        IN  /\ FLeq(FAbs(FSub(sum, Whole(unit.size))), Frac(unit.size, ToleranceDen))
            /\ unit.result.totalSize = sum

\* C19: optimize fails (returns null) whenever the walked side of the
\* merged book offers less than the requested size by more than
\* size * 0.001, an empty side included, and returns allocations whenever
\* the shortfall is within that tolerance.
C19_FailsIffBeyondTolerance ==
    unit.fn = "optimize" =>
        /\ ~WithinTolerance => ~unit.result.ok
        /\ WithinTolerance => unit.result.ok /\ Len(unit.result.allocations) > 0

\* simulate()'s walk for a size that is a fraction: the average price
\* <<avg>>, or <<>> when the book is not deep enough.
ScaleSz(levels, d) ==
    [k \in 1..Len(levels) |-> [px |-> levels[k].px, sz |-> levels[k].sz * d]]

SingleAvg(book, side, size) ==
    LET w == Walk(ScaleSz(WalkedSide(book, side), size.den), size.num, 0)
    IN  IF w.remaining > 0 THEN <<>> ELSE <<Frac(w.totalCost, size.num)>>

BookOfCoin(coin) ==
    unit.books[CHOOSE i \in 1..Len(unit.markets) : unit.markets[i].coin = coin]

\* The average prices single contributing markets give for the total size.
SingleAvgs ==
    {SingleAvg(BookOfCoin(unit.result.allocations[k].market.coin), unit.side,
               unit.result.totalSize)[1] :
        k \in {j \in 1..Len(unit.result.allocations) :
                 SingleAvg(BookOfCoin(unit.result.allocations[j].market.coin),
                           unit.side, unit.result.totalSize) # <<>>}}

\* The best of a set of average prices: the lowest for a buy, the highest
\* for a sell.
BestAvg(side, avgs) ==
    CHOOSE a \in avgs :
        \A b \in avgs : IF side = "buy" THEN FLeq(a, b) ELSE FLeq(b, a)

SplitOverMarkets == OptimizeReturned /\ Len(unit.result.allocations) >= 2

\* C20 as stated: for any side and size, whenever optimize returns
\* allocations on two or more markets, aggregateAvgPrice <= the best
\* average price that simulating the same total size on a single
\* contributing market's book gives.
C20_AggregateAtMostSingleBest ==
    SplitOverMarkets /\ SingleAvgs # {} =>
        FLeq(unit.result.aggregateAvgPrice, BestAvg(unit.side, SingleAvgs))

\* C20, amended: whenever optimize returns allocations on two or more
\* markets, aggregateAvgPrice is at least as good as the best average
\* price that simulating the same total size on a single contributing
\* market's book gives: <= it for a buy, >= it for a sell.
C20_AggregateNoWorseThanSingleBest ==
    SplitOverMarkets /\ SingleAvgs # {} =>
        IF unit.side = "buy"
        THEN FLeq(unit.result.aggregateAvgPrice, BestAvg(unit.side, SingleAvgs))
        ELSE FLeq(BestAvg(unit.side, SingleAvgs), unit.result.aggregateAvgPrice)

\* A sell split over two markets at a price strictly better than the best
\* single market gives for the whole size.
C20_Witness ==
    /\ SplitOverMarkets
    /\ unit.side = "sell"
    /\ SingleAvgs # {}
    /\ FLt(BestAvg(unit.side, SingleAvgs), unit.result.aggregateAvgPrice)


\* ------------------------------------------------- HyperliquidPrime
\* The venue's methods, as the provider interface declares them.
VenueReads ==
    {"meta", "metaAndAssetCtxs", "perpDexs", "allPerpMetas", "spotMeta", "allMids",
     "l2Book", "clearinghouseState", "spotClearinghouseState", "openOrders",
     "userFills", "fundingHistory", "maxBuilderFee"}
VenueWrites ==
    {"placeOrder", "cancelOrder", "batchOrders", "approveBuilderFee", "setLeverage",
     "usdClassTransfer", "setDexAbstraction"}

\* One call a facade operation makes on what lies below it.
Call(to, name) == [to |-> to, call |-> name]

RegistryOps == {"getMarkets", "getAggregatedMarkets", "getFundingComparison"}
QuoteOps == {"quote", "quoteSplit"}
ExecuteOps == {"execute", "executeSplit"}
ClearinghouseOps == {"close", "getPositions", "getBalance"}
WalletOps == ExecuteOps \cup ClearinghouseOps
FacadeOps == RegistryOps \cup {"getAggregatedBook"} \cup QuoteOps \cup WalletOps

\* Mutant: the guard lets every call through.
EnsureConnectedNeverThrows(isConnected) == FALSE

\* ensureConnected(): throws NotConnectedError unless connected.
EnsureConnectedThrows(isConnected) == ~isConnected

\* The guards an operation opens with: ensureConnected(), then
\* ensureWallet() for the operations that need a wallet.
GuardError(op) ==
    IF EnsureConnectedThrows(connected) THEN "NotConnected"
    ELSE IF op \in WalletOps /\ walletAddress = NoWallet THEN "NoWallet"
    ELSE ""

Failed(call, error) == [call EXCEPT !.pc = "done", !.error = error]

\* Mutant: the balance lookup of quote() switches abstraction on.
CollateralReadEnabling == Call("venue", "setDexAbstraction")

\* resolveUserCollateral()'s venue call.
CollateralRead == Call("venue", "spotClearinghouseState")

\* What the registry read of a synchronous operation returns.
RegistryResult(op, asset) ==
    IF op = "getAggregatedMarkets"
    THEN [kind |-> "groups", groups |-> GetGroupsWithAlternatives(groups)]
    ELSE [kind |-> "markets", markets |-> GetMarkets(groups, asset)]

\* An operation up to its first await.  Returns the call's next state;
\* quote without a wallet and getAggregatedBook reach the router or the
\* aggregator at once.
Invoked(op, asset, side, size) ==
    LET call == [NoOp EXCEPT !.op = op, !.asset = asset, !.side = side,
                             !.size = size, !.invokedWhile = life]
    IN  IF GuardError(op) # "" THEN Failed(call, GuardError(op))
        ELSE IF op \in RegistryOps
        THEN [call EXCEPT !.pc = "done", !.result = RegistryResult(op, asset)]
        ELSE IF op = "getAggregatedBook"
        THEN [call EXCEPT !.pc = "router", !.log = <<Call("aggregator", "aggregate")>>]
        ELSE IF op \in QuoteOps
        THEN IF walletAddress = NoWallet
             THEN [call EXCEPT !.pc = "router", !.log = <<Call("router", op)>>]
             ELSE [call EXCEPT !.pc = "collateral", !.log = <<CollateralRead>>]
        ELSE IF op \in ExecuteOps
        THEN [call EXCEPT !.pc = "executor", !.log = <<Call("executor", op)>>]
        ELSE [call EXCEPT !.pc = "positions",
                          !.log = <<Call("venue", "clearinghouseState")>>]

\* The arguments of the router call an operation makes: its own for quote
\* and quoteSplit, the position's for close.
RouterOp(call) == IF call.op = "close" THEN "quote" ELSE call.op
RouterAsset(call) == IF call.op = "close" THEN call.toClose[call.k].coin ELSE call.asset
RouterSide(call) ==
    IF call.op = "close"
    THEN (IF call.toClose[call.k].side = "long" THEN "sell" ELSE "buy")
    ELSE call.side
RouterSize(call) == IF call.op = "close" THEN call.toClose[call.k].size ELSE call.size

Invoke(op, asset, side, size) ==
    /\ fop.pc = "idle"
    /\ fop' = Invoked(op, asset, side, size)
    /\ IF Invoked(op, asset, side, size).pc = "router"
       THEN IF op = "getAggregatedBook"
            THEN RouterStart("aggregate", asset, "buy", 0, {})
            ELSE RouterStart(op, asset, side, size, {"USDC"})
       ELSE UNCHANGED qvars
    /\ UNCHANGED <<groups, rvars, evars, unit, connected, walletAddress, life, lifecycle, pvars>>

CollateralUnavailable ==
    [w |-> "Could not load spot balances", k |-> 0, n |-> 0]

\* balances.filter(b => parseFloat(b.total) > 0).map(b => b.coin)
PositiveCoins(balances) ==
    {balances[k].coin : k \in {j \in 1..Len(balances) : balances[j].total > 0}}

\* Mutant: USDC is not added to what the wallet holds.
ResolveCollateralAsHeld(balances) == PositiveCoins(balances)

\* The collateral resolveUserCollateral() makes of the venue's answer.
ResolveCollateral(balances) == PositiveCoins(balances) \cup {"USDC"}

\* quote.warnings = [...(quote.warnings ?? []), ...warnings], when there
\* are any.
WithWarnings(quote, warnings) ==
    IF Len(warnings) > 0 THEN [quote EXCEPT !.warnings = @ \o warnings] ELSE quote

\* resolveUserCollateral() after the venue's answer: the tokens held plus
\* USDC, then the router is called.
CollateralOk(balances) ==
    /\ fop.pc = "collateral"
    /\ fop' = [fop EXCEPT !.pc = "router",
                          !.log = Append(@, Call("router", RouterOp(fop))),
                          !.spot = [st |-> "ok", balances |-> balances],
                          !.warnings = <<>>]
    /\ RouterStart(RouterOp(fop), RouterAsset(fop), RouterSide(fop), RouterSize(fop),
                   ResolveCollateral(balances))
    /\ UNCHANGED <<groups, rvars, evars, unit, connected, walletAddress, life, lifecycle, pvars>>

\* The balance read fails: USDC alone, and a warning.
CollateralFail ==
    /\ fop.pc = "collateral"
    /\ fop' = [fop EXCEPT !.pc = "router",
                          !.log = Append(@, Call("router", RouterOp(fop))),
                          !.spot = [st |-> "failed", balances |-> <<>>],
                          !.warnings = <<CollateralUnavailable>>]
    /\ RouterStart(RouterOp(fop), RouterAsset(fop), RouterSide(fop), RouterSize(fop),
                   {"USDC"})
    /\ UNCHANGED <<groups, rvars, evars, unit, connected, walletAddress, life, lifecycle, pvars>>

\* this.execute(plan) as close() calls it: the guards, then the executor
\* is handed the plan.
ExecutePlan(call, plan) ==
    IF GuardError("execute") # "" THEN Failed(call, GuardError("execute"))
    ELSE [call EXCEPT !.pc = "executor",
                      !.log = Append(@, Call("executor", "execute")),
                      !.orders = Append(@, plan)]

\* The router or the aggregator has returned or thrown.
RouterDone ==
    /\ fop.pc = "router"
    /\ qpc = "done"
    /\ fop' = IF fop.op = "close"
              THEN IF qresult.kind = "error" THEN Failed(fop, qresult.error)
                   ELSE ExecutePlan(fop, qresult.plan)
              ELSE IF qresult.kind = "error"
              THEN [Failed(fop, qresult.error) EXCEPT !.result = qresult]
              ELSE IF fop.op \in QuoteOps
              THEN [fop EXCEPT !.pc = "done",
                               !.result = WithWarnings(qresult, fop.warnings)]
              ELSE [fop EXCEPT !.pc = "done", !.result = qresult]
    /\ RouterReset
    /\ UNCHANGED <<groups, rvars, evars, unit, connected, walletAddress, life, lifecycle, pvars>>

\* PositionManager.findMarket(coin)?.baseAsset ?? coin
RECURSIVE BaseAssetOf(_, _)
BaseAssetOf(index, coin) ==
    IF index = <<>> THEN coin
    ELSE IF MapGet(Head(index).markets, coin) # <<>>
    THEN MapGet(Head(index).markets, coin)[1].baseAsset
    ELSE BaseAssetOf(Tail(index), coin)

\* PositionManager.getPositions: one logical position per venue position.
LogicalPositions(index, assetPositions) ==
    [i \in 1..Len(assetPositions) |->
        [baseAsset |-> BaseAssetOf(index, assetPositions[i].coin),
         coin |-> assetPositions[i].coin,
         side |-> IF assetPositions[i].szi >= 0 THEN "long" ELSE "short",
         size |-> Abs(assetPositions[i].szi)]]

\* close()'s filter: the positions of the asset that have a size.
RECURSIVE ToClose(_, _)
ToClose(positions, baseAsset) ==
    IF positions = <<>> THEN <<>>
    ELSE (IF /\ ToUpperCase(Head(positions).baseAsset) = ToUpperCase(baseAsset)
             /\ Head(positions).size > 0
          THEN <<Head(positions)>> ELSE <<>>)
         \o ToClose(Tail(positions), baseAsset)

\* close()'s loop at position k: this.quote(pos.coin, side, pos.size) up to
\* its first await, or the return once every position is done.
CloseIterate(call) ==
    IF call.k > Len(call.toClose) THEN [call EXCEPT !.pc = "done"]
    ELSE IF GuardError("quote") # "" THEN Failed(call, GuardError("quote"))
    ELSE [call EXCEPT !.pc = "collateral", !.log = Append(@, CollateralRead)]

\* provider.clearinghouseState(user) resolves.
ClearinghouseOk(assetPositions) ==
    /\ fop.pc = "positions"
    /\ fop' = IF fop.op = "close"
              THEN CloseIterate([fop EXCEPT
                        !.reported = assetPositions,
                        !.toClose = ToClose(LogicalPositions(groups, assetPositions),
                                            fop.asset),
                        !.k = 1])
              ELSE [fop EXCEPT !.pc = "done"]
    /\ UNCHANGED <<groups, rvars, qvars, evars, unit, connected, walletAddress, life,
                   lifecycle, pvars>>

\* The executor returns its receipt; close() goes on to the next position.
ExecutorReturns ==
    /\ fop.pc = "executor"
    /\ fop' = IF fop.op = "close" THEN CloseIterate([fop EXCEPT !.k = @ + 1])
              ELSE [fop EXCEPT !.pc = "done"]
    /\ UNCHANGED <<groups, rvars, qvars, evars, unit, connected, walletAddress, life,
                   lifecycle, pvars>>

\* A call the operation awaits rejects, and the operation with it.
DownstreamFails ==
    /\ fop.pc \in {"positions", "executor"}
    /\ fop' = Failed(fop, "VenueError")
    /\ UNCHANGED <<groups, rvars, qvars, evars, unit, connected, walletAddress, life,
                   lifecycle, pvars>>

\* The caller takes the operation's result.
FacadeReturn ==
    /\ fop.pc = "done"
    /\ fop' = NoOp
    /\ UNCHANGED <<groups, rvars, qvars, evars, unit, connected, walletAddress, life,
                   lifecycle, pvars>>

\* connect(): provider.connect(), then registry.discover(), then the flag.
ConnectStart ==
    /\ lifecycle.connect = "idle"
    /\ lifecycle' = [lifecycle EXCEPT !.connect = "provider"]
    /\ UNCHANGED <<groups, rvars, qvars, evars, unit, connected, walletAddress, life, fop, pvars>>

ProviderConnectOk ==
    /\ lifecycle.connect = "provider"
    /\ lifecycle' = [lifecycle EXCEPT !.connect = "discover"]
    /\ UNCHANGED <<groups, rvars, qvars, evars, unit, connected, walletAddress, life, fop, pvars>>

\* discover() publishes the index it built.
DiscoverOk(index) ==
    /\ lifecycle.connect = "discover"
    /\ groups' = index
    /\ lifecycle' = [lifecycle EXCEPT !.connect = "discovered"]
    /\ UNCHANGED <<rvars, qvars, evars, unit, connected, walletAddress, life, fop, pvars>>

ConnectFinish ==
    /\ lifecycle.connect = "discovered"
    /\ connected' = TRUE
    /\ life' = "connect"
    /\ lifecycle' = [lifecycle EXCEPT !.connect = "idle", !.lastConnect = "ok"]
    /\ UNCHANGED <<groups, rvars, qvars, evars, unit, walletAddress, fop, pvars>>

\* provider.connect() or discover() rejects: connect() rejects, the index
\* and the flag stay as they were.
ConnectFails ==
    /\ lifecycle.connect \in {"provider", "discover"}
    /\ lifecycle' = [lifecycle EXCEPT
                        !.connect = "idle",
                        !.lastConnect = IF lifecycle.connect = "discover"
                                        THEN "discoverFailed" ELSE "providerFailed"]
    /\ UNCHANGED <<groups, rvars, qvars, evars, unit, connected, walletAddress, life, fop, pvars>>

\* disconnect(): provider.disconnect(), then the flag.
DisconnectStart ==
    /\ lifecycle.disconnect = "idle"
    /\ lifecycle' = [lifecycle EXCEPT !.disconnect = "provider"]
    /\ UNCHANGED <<groups, rvars, qvars, evars, unit, connected, walletAddress, life, fop, pvars>>

DisconnectFinish ==
    /\ lifecycle.disconnect = "provider"
    /\ connected' = FALSE
    /\ life' = "disconnect"
    /\ lifecycle' = [lifecycle EXCEPT !.disconnect = "idle"]
    /\ UNCHANGED <<groups, rvars, qvars, evars, unit, walletAddress, fop, pvars>>

DisconnectFails ==
    /\ lifecycle.disconnect = "provider"
    /\ lifecycle' = [lifecycle EXCEPT !.disconnect = "idle"]
    /\ UNCHANGED <<groups, rvars, qvars, evars, unit, connected, walletAddress, life, fop, pvars>>

\* ------------------------------------------------- facade runs
EthNative ==
    [baseAsset |-> "ETH", coin |-> "ETH", assetIndex |-> 1, dexName |-> "__native__",
     collateral |-> "USDC", isNative |-> TRUE, funding |-> 0]
EthDeployer ==
    [baseAsset |-> "ETH", coin |-> "xyz:ETH", assetIndex |-> 110001, dexName |-> "xyz",
     collateral |-> "USDC", isNative |-> FALSE, funding |-> 0]

TslaGroup == TslaIndex(1, <<0, 1, -1, 2>>)[1]
EthGroup(markets) ==
    [baseAsset |-> "ETH", markets |-> markets, hasAlternatives |-> Len(markets) > 1]

\* What discover() can publish: ETH native and on a deployer plus TSLA on
\* a deployer, or ETH native alone.
FacadeIndexes ==
    {<<EthGroup(<<EthNative, EthDeployer>>), TslaGroup>>, <<EthGroup(<<EthNative>>)>>}

FacadeAssets == {"eth", "TSLA"}
MaxFacadeSize == 1   \* sizes of the orders quoted through the facade
Wallets == {NoWallet, "0xuser"}

\* What the venue reports as open: a long on native ETH, a short on the
\* deployer's TSLA, an entry of size 0.
PositionLists ==
    {<<>>,
     <<[coin |-> "ETH", szi |-> 1]>>,
     <<[coin |-> "xyz:TSLA", szi |-> -1]>>,
     <<[coin |-> "xyz:ETH", szi |-> 0], [coin |-> "ETH", szi |-> 1]>>}

\* One deep level at either price of the walked side.
FacadeBooks(side) ==
    {b \in BooksFor(side) :
        /\ Len(WalkedSide(b, side)) = 1
        /\ WalkedSide(b, side)[1].sz = MaxSz
        /\ Len(IF side = "buy" THEN b.bids ELSE b.asks) = 1}

InitFacade ==
    /\ groups = <<>>
    /\ RIdle
    /\ QIdle
    /\ EIdle
    /\ UIdle
    /\ PIdle
    /\ connected = FALSE
    /\ walletAddress \in Wallets
    /\ life = "none"
    /\ lifecycle = NoLifecycle
    /\ fop = NoOp

Operation ==
    \E op \in FacadeOps, asset \in FacadeAssets, side \in Sides :
        \E size \in 1..MaxFacadeSize : Invoke(op, asset, side, size)
\* What the venue reports as the wallet's spot balances: nothing, USDH
\* held, USDH spent, USDC and an emptied USDH.
WalletBalances ==
    {<<>>,
     <<[coin |-> "USDH", total |-> 1]>>,
     <<[coin |-> "USDH", total |-> 0]>>,
     <<[coin |-> "USDC", total |-> 1], [coin |-> "USDH", total |-> 0]>>}

VenueBalances == \E balances \in WalletBalances : CollateralOk(balances)
VenueBalancesFail == CollateralFail
FacadeBookOk ==
    \E i \in 1..Len(qfetch) : \E book \in FacadeBooks(qside) : FetchOk(i, book)
VenuePositions == \E assetPositions \in PositionLists : ClearinghouseOk(assetPositions)
Discovered == \E index \in FacadeIndexes : DiscoverOk(index)

NextFacade ==
    \/ ConnectStart
    \/ ProviderConnectOk
    \/ Discovered
    \/ ConnectFinish
    \/ ConnectFails
    \/ DisconnectStart
    \/ DisconnectFinish
    \/ DisconnectFails
    \/ Operation
    \/ VenueBalances
    \/ VenueBalancesFail
    \/ FacadeBookOk
    \/ VenueBookFail
    \/ BookTimeout
    \/ OpFinish
    \/ RouterDone
    \/ VenuePositions
    \/ ExecutorReturns
    \/ DownstreamFails
    \/ FacadeReturn

SpecFacade == InitFacade /\ [][NextFacade]_vars


\* ------------------------------------------------- facade properties
\* A step of a quote or quoteSplit call: the call's own state or the
\* router's changes while the operation in flight is one of the two.
QuoteStep ==
    /\ fop.op \in QuoteOps \/ fop'.op \in QuoteOps
    /\ fop' # fop \/ qvars' # qvars

\* What an operation has called so far, other than the registry, the
\* router's book reads (l2Book) and the router itself.
WritesIn(log) ==
    {k \in 1..Len(log) :
        \/ log[k].to = "executor"
        \/ log[k].to = "venue" /\ log[k].call \notin VenueReads}

\* C13: quote and quoteSplit only read from the venue: no step of theirs
\* places or cancels an order, transfers funds, approves a builder fee or
\* changes abstraction mode or leverage (every venue call they log is a
\* read, the executor is never called, no order is handed on), and no step
\* of theirs changes the registry index.
C13_QuotesOnlyRead ==
    [][QuoteStep =>
        /\ groups' = groups
        /\ evars' = evars
        /\ WritesIn(fop'.log) = {}
        /\ fop'.orders = <<>>]_vars

\* quote() of a wallet's facade has read the balances, the router has
\* fetched the books and has a quote to return.
C13_Witness ==
    /\ fop.op = "quote"
    /\ fop.pc = "router"
    /\ fop.log = <<CollateralRead, Call("router", "quote")>>
    /\ qpc = "done"
    /\ qresult.kind = "quote"

IsIndexed(index, coin) == \E g \in 1..Len(index) : MapGet(index[g].markets, coin) # <<>>

\* The positions the venue reported that close(asset) is to close: of a
\* market of that base asset, with a size.
OpenPositionsOf(call) ==
    {i \in 1..Len(call.reported) :
        /\ call.reported[i].szi # 0
        /\ IsIndexed(groups, call.reported[i].coin)
        /\ BaseAssetOf(groups, call.reported[i].coin) = ToUpperCase(call.asset)}

\* C15: close(asset) submits, for every open position of that base asset
\* (size > 0), an order of the opposite side and of the position's size on
\* the market that holds the position, native or a deployer's.  Stated of
\* a close() that has returned, or has been rejected for want of markets.
C15_CloseOrdersOnHoldingMarket ==
    fop.op = "close" /\ fop.pc = "done" /\ fop.error \in {"", "NoMarkets"} =>
        \A i \in OpenPositionsOf(fop) :
            \E j \in 1..Len(fop.orders) :
                /\ fop.orders[j].coin = fop.reported[i].coin
                /\ fop.orders[j].side = (IF fop.reported[i].szi > 0 THEN "sell" ELSE "buy")
                /\ fop.orders[j].size = Abs(fop.reported[i].szi)

\* ------------------------------------------------- aggregated books
\* The book aggregate() or aggregateForOrder() (called by quoteSplit) has
\* built from the fetches once they have settled.
AggregateReturned ==
    /\ qpc = "done"
    /\ \/ qop = "aggregate"
       \/ qop = "quoteSplit" /\ Len(qmarkets) > 0

AggregatedBook ==
    IF qop = "aggregate" THEN Aggregate(qmarkets, qfetch)
    ELSE AggregateForOrder(qmarkets, qfetch, qside, qsize)

AllLevels(book) == SeqRange(book.bids) \cup SeqRange(book.asks)
SourceCoins(book) == UNION {{x.coin : x \in SeqRange(l.sources)} : l \in AllLevels(book)}
SnapshotsOf(book, coin) == {j \in 1..Len(book.marketBooks) : book.marketBooks[j].coin = coin}

\* C21: in every aggregate / aggregateForOrder result, a market whose book
\* fetch failed or timed out is in no level's sources on either side and has
\* no entry in the per-market snapshot list; every market whose fetch
\* succeeded has exactly one snapshot entry; if every fetch fails the result
\* is the empty book.
C21_FailedMarketsAbsent ==
    AggregateReturned =>
        /\ \A i \in 1..Len(qmarkets) :
              IF qfetch[i].st = "ok"
              THEN Cardinality(SnapshotsOf(AggregatedBook, qmarkets[i].coin)) = 1
              ELSE /\ qmarkets[i].coin \notin SourceCoins(AggregatedBook)
                   /\ SnapshotsOf(AggregatedBook, qmarkets[i].coin) = {}
        /\ Responded = {} => AggregatedBook = EmptyAggregatedBook

\* aggregate() of two markets: the first fetch rejected, the second
\* answered with asks, which are the merged asks.
C21_Witness ==
    /\ AggregateReturned
    /\ qop = "aggregate"
    /\ Len(qmarkets) = 2
    /\ qfetch[1].st = "failed"
    /\ qfetch[2].st = "ok"
    /\ Len(qfetch[2].book.asks) = 2
    /\ SourceCoins(AggregatedBook) = {qmarkets[2].coin}
    /\ Len(AggregatedBook.marketBooks) = 1

RECURSIVE SumSourceSz(_)
SumSourceSz(sources) ==
    IF sources = <<>> THEN 0 ELSE Head(sources).sz + SumSourceSz(Tail(sources))

\* C22: in every aggregated book, at every level of both sides, the sizes
\* listed in the level's sources sum to the level's total size.
C22_SourcesSumToLevel ==
    AggregateReturned =>
        \A l \in AllLevels(AggregatedBook) : SumSourceSz(l.sources) = l.sz

\* A merged level that two markets contribute to.
C22_Witness ==
    /\ AggregateReturned
    /\ \E l \in AllLevels(AggregatedBook) :
          /\ Len(l.sources) = 2
          /\ l.sources[1].coin # l.sources[2].coin
          /\ l.sz = l.sources[1].sz + l.sources[2].sz

\* C23: in every aggregated book, full or truncated for an order, bid
\* prices are non-increasing and ask prices are non-decreasing from the
\* first level to the last.
C23_SidesMonotone ==
    AggregateReturned =>
        /\ \A i \in 1..(Len(AggregatedBook.bids) - 1) :
              AggregatedBook.bids[i].px >= AggregatedBook.bids[i + 1].px
        /\ \A i \in 1..(Len(AggregatedBook.asks) - 1) :
              AggregatedBook.asks[i].px <= AggregatedBook.asks[i + 1].px

\* The first market bids lower than the second: the merge has to reorder.
C23_Witness ==
    /\ AggregateReturned
    /\ qop = "aggregate"
    /\ Len(qmarkets) = 2
    /\ Responded = {1, 2}
    /\ Len(qfetch[1].book.bids) = 1
    /\ Len(qfetch[2].book.bids) = 1
    /\ qfetch[1].book.bids[1].px < qfetch[2].book.bids[1].px
    /\ Len(AggregatedBook.bids) = 2

\* A book truncated for a sell: the bids stop at the level that covers the
\* size, short of the merged side.
TruncatedWitness ==
    /\ AggregateReturned
    /\ qop = "quoteSplit"
    /\ qside = "sell"
    /\ Len(AggregatedBook.bids) = 1
    /\ Len(Aggregate(qmarkets, qfetch).bids) = 2

\* ------------------------------------------------- the index discover() builds
IndexedMarkets(index) == UNION {SeqRange(index[k].markets) : k \in 1..Len(index)}

DexNameOf(data, d) == IF data.dexs[d] = "null" THEN "__native__" ELSE data.dexs[d]

\* The market of the i-th asset of the d-th universe, if the index has it.
MarketsOf(index, data, d, i) ==
    {m \in IndexedMarkets(index) :
        /\ m.coin = AssetName(data.allMetas[d].universe[i])
        /\ m.dexName = DexNameOf(data, d)}

Positions(data) ==
    UNION {{<<d, i>> : i \in 1..Len(data.allMetas[d].universe)} :
           d \in 1..Len(data.allMetas)}

\* Every HIP-3 asset name has its colon: the loop of discover() cannot throw.
WellNamed(allMetas) ==
    \A d \in 2..Len(allMetas) :
        \A i \in 1..Len(allMetas[d].universe) : allMetas[d].universe[i].colon

\* The step of run p that leaves discover(): it returns or throws.
Leaves(p) == disc[p].pc = "ctxs" /\ disc'[p].pc = "idle"

\* C24: after discover() succeeds, a market is in the index if and only if
\* its asset is not delisted, its asset context is present, and its
\* deployer's asset-context fetch succeeded; a failed context fetch for one
\* deployer removes only that deployer's markets and does not fail
\* discover() (a run whose asset names are well-formed publishes its index
\* whatever the context fetches did).
C24_IndexedIffListed ==
    /\ [](lastData # NoData =>
            /\ \A l \in Positions(lastData) :
                  (MarketsOf(groups, lastData, l[1], l[2]) # {})
                  <=> /\ ~lastData.allMetas[l[1]].universe[l[2]].isDelisted
                      /\ l[2] <= Len(lastData.ctxResults[l[1]].assetCtxs)
                      /\ lastData.ctxResults[l[1]].status = "fulfilled"
            /\ \A m \in IndexedMarkets(groups) :
                  \E l \in Positions(lastData) :
                      m \in MarketsOf(groups, lastData, l[1], l[2]))
    /\ [][\A p \in DOMAIN disc :
            (Leaves(p) /\ WellNamed(disc[p].allMetas)) =>
                /\ lastData'.allMetas = disc[p].allMetas
                /\ lastData'.tokens = disc[p].tokens
                /\ lastData' # NoData]_vars

\* discover() has succeeded with the first deployer's contexts rejected:
\* the native market and the second deployer's markets are indexed, the
\* first deployer's are not.
C24_Witness ==
    /\ Len(lastData.allMetas) = 3
    /\ lastData.ctxResults[2].status = "rejected"
    /\ lastData.ctxResults[3].status = "fulfilled"
    /\ {m.dexName : m \in IndexedMarkets(groups)} = {"__native__", "flx"}
    /\ {m.coin : m \in IndexedMarkets(groups)} = {"ETH", "flx:TSLA", "flx:eth"}

MarketCount(index) ==
    LET RECURSIVE Count(_)
        Count(k) == IF k > Len(index) THEN 0
                    ELSE Len(index[k].markets) + Count(k + 1)
    IN  Count(1)

\* C25: with unchanged venue metadata, running discover() any number of
\* times in succession yields the same index as running it once: the same
\* groups containing the same markets, with no market duplicated.
C25_DiscoverIdempotent ==
    /\ [](/\ Cardinality({m.coin : m \in IndexedMarkets(groups)}) = MarketCount(groups)
          /\ Cardinality({groups[k].baseAsset : k \in 1..Len(groups)}) = Len(groups))
    /\ [][(lastData'.repeat /\ \E p \in DOMAIN disc : Leaves(p))
            => groups' = groups]_vars

\* A second successful discover() that got the answers of the first, with
\* two markets in one group.
C25_Witness ==
    /\ lastData.repeat
    /\ \E k \in 1..Len(groups) : Len(groups[k].markets) = 2
    /\ \A p \in DOMAIN disc : disc[p].pc = "idle"

\* The position of a deployer in the venue's deployer list, from 0.
DeployerIndex(data, dexName) ==
    (CHOOSE d \in 1..Len(data.dexs) : DexNameOf(data, d) = dexName) - 1

\* The position of a coin in its deployer's universe, from 0.
LocalIndex(data, dexName, coin) ==
    (CHOOSE i \in 1..Len(data.allMetas[DeployerIndex(data, dexName) + 1].universe) :
        AssetName(data.allMetas[DeployerIndex(data, dexName) + 1].universe[i]) = coin) - 1

\* C26: every indexed native market has asset_index equal to its local
\* index in its universe, and every indexed deployer market has asset_index
\* = 100000 + deployer_index*10000 + local_index, where deployer_index is
\* the deployer's position in the venue's deployer list.
C26_AssetIndex ==
    \A m \in IndexedMarkets(groups) :
        /\ m.isNative <=> m.dexName = "__native__"
        /\ m.assetIndex =
              IF m.isNative THEN LocalIndex(lastData, m.dexName, m.coin)
              ELSE 100000 + DeployerIndex(lastData, m.dexName) * 10000
                          + LocalIndex(lastData, m.dexName, m.coin)

\* The second asset of the second deployer and the first native asset.
C26_Witness ==
    /\ \E m \in IndexedMarkets(groups) : m.coin = "flx:eth" /\ m.assetIndex = 120001
    /\ \E m \in IndexedMarkets(groups) : m.coin = "ETH" /\ m.assetIndex = 0

\* ------------------------------------------------- collateral estimates
EstimateReturned == unit.fn = "estimateRequirements"

\* The cost of the allocations that need `token` as collateral.
NeededOf(allocations, token) ==
    LET RECURSIVE Sum(_)
        Sum(k) == IF k > Len(allocations) THEN 0
                  ELSE (IF allocations[k].market.collateral = token
                        THEN allocations[k].estimatedCost ELSE 0) + Sum(k + 1)
    IN  Sum(1)

SpotBalanceOf(balanceMap, token) ==
    IF token \in DOMAIN balanceMap THEN balanceMap[token] ELSE 0

\* C27: in every plan estimateRequirements returns, the shortfall of a USDC
\* requirement is 0 whatever the balances are, the shortfall of any other
\* token is max(0, amount_needed - spot balance of that token), and
\* swaps_needed is true if and only if some requirement has a positive
\* shortfall.  (Each collateral of the allocations has one requirement,
\* for the sum of their costs.)
C27_Shortfalls ==
    EstimateReturned =>
        LET reqs == unit.result.requirements
        IN  /\ \A k \in 1..Len(reqs) :
                  /\ reqs[k].amountNeeded = NeededOf(unit.allocations, reqs[k].token)
                  /\ reqs[k].shortfall =
                        IF reqs[k].token = "USDC" THEN 0
                        ELSE IF reqs[k].amountNeeded
                                  > SpotBalanceOf(unit.balanceMap, reqs[k].token)
                        THEN reqs[k].amountNeeded
                                  - SpotBalanceOf(unit.balanceMap, reqs[k].token)
                        ELSE 0
            /\ {reqs[k].token : k \in 1..Len(reqs)}
                  = {unit.allocations[k].market.collateral :
                        k \in 1..Len(unit.allocations)}
            /\ Cardinality({reqs[k].token : k \in 1..Len(reqs)}) = Len(reqs)
            /\ unit.result.swapsNeeded <=> \E k \in 1..Len(reqs) : reqs[k].shortfall > 0

\* A USDC leg with no USDC held anywhere and a USDH leg that is short: the
\* USDC shortfall is 0, the USDH one is positive.
C27_Witness ==
    /\ EstimateReturned
    /\ unit.perpUsdcBalance = 0
    /\ "USDC" \notin DOMAIN unit.balanceMap
    /\ Len(unit.result.requirements) = 2
    /\ unit.result.requirements[1].token = "USDC"
    /\ unit.result.requirements[1].shortfall = 0
    /\ unit.result.requirements[2].token = "USDH"
    /\ unit.result.requirements[2].shortfall = 2
    /\ unit.result.swapsNeeded

SwapCostReturned == unit.fn = "estimateSwapCost"

\* C28: estimateSwapCost never fails: it returns 50 bps when the spot book
\* cannot be fetched or is empty, 100 bps when the book's ask depth is less
\* than the amount, and otherwise the simulated price impact in bps of
\* buying the amount.
C28_SwapCostNeverFails ==
    SwapCostReturned =>
        /\ unit.result.returned
        /\ unit.result.bps =
              IF unit.fetch.st # "ok" \/ unit.fetch.book = NoBook
              THEN [num |-> 50, den |-> 1]
              ELSE IF SumSz(unit.fetch.book.asks) < unit.amount
              THEN [num |-> 100, den |-> 1]
              ELSE SimulationOf(Walk(unit.fetch.book.asks, unit.amount, 0),
                                unit.fetch.book, unit.amount).impact

\* The l2Book read was rejected; 50 bps came back.
C28_Witness ==
    /\ SwapCostReturned
    /\ unit.fetch.st = "failed"
    /\ unit.result.returned
    /\ unit.result.bps = [num |-> 50, den |-> 1]

\* The other two outcomes: a book without the depth, and a book with it
\* whose impact is above zero.
SwapCostDepthWitness ==
    /\ SwapCostReturned
    /\ unit.fetch.st = "ok"
    /\ unit.fetch.book.asks # <<>>
    /\ unit.result.bps = [num |-> 100, den |-> 1]

SwapCostImpactWitness ==
    /\ SwapCostReturned
    /\ unit.fetch.st = "ok"
    /\ SumSz(unit.fetch.book.asks) >= unit.amount
    /\ unit.result.bps.num > 0
    /\ unit.result.bps # [num |-> 100, den |-> 1]

\* ------------------------------------------------- the order of prepare's steps
\* The tokens of the events of one venue call and phase, in trace order.
TokensOf(t, name, phase) ==
    LET evs == SelectSeq(t, LAMBDA e : e.call = name /\ e.phase = phase)
    IN  [k \in 1..Len(evs) |-> evs[k].token]

PlanSwapTokens(plan) == [k \in 1..Len(PlanSwaps(plan)) |-> PlanSwaps(plan)[k].token]

IsPrefix(s, full) == Len(s) <= Len(full) /\ \A k \in 1..Len(s) : s[k] = full[k]

\* The steps of prepare's loop that go to the venue for a token.
SwapStepsIssued(t) ==
    {k \in 1..Len(t) :
        /\ t[k].phase = "issued"
        /\ t[k].call \in {"usdClassTransfer", "placeOrder"}}

\* C30: in every prepare run, enabling abstraction (when issued) completes
\* before any transfer; for each requirement needing a swap the USDC
\* perp-to-spot transfer completes before that token's spot order is
\* placed; and requirements are handled one at a time in plan order, so no
\* transfer or order for a later token is issued before the previous
\* token's order has been answered.
C30_PrepareIsSerial ==
    \A c \in SplitCalls :
        LET t == calls[c].trace
            tokens == PlanSwapTokens(calls[c].cplan)
        IN  /\ \A k \in IssuedAt(t, "usdClassTransfer") :
                  IssuedAt(t, "setDexAbstraction") # {} =>
                      \E j \in 1..(k - 1) : t[j] = Ev("setDexAbstraction", "ok", "", "")
            /\ \A k \in IssuedAt(t, "placeOrder") :
                  \E j \in 1..(k - 1) : t[j] = Ev("usdClassTransfer", "ok", t[k].token, "")
            /\ IsPrefix(TokensOf(t, "usdClassTransfer", "issued"), tokens)
            /\ IsPrefix(TokensOf(t, "placeOrder", "issued"), tokens)
            /\ \A k \in SwapStepsIssued(t) :
                  \A n \in 2..Len(tokens) :
                      t[k].token = tokens[n] =>
                          \E j \in 1..(k - 1) :
                              /\ t[j].call = "placeOrder"
                              /\ t[j].phase = "ok"
                              /\ t[j].token = tokens[n - 1]

\* A prepare run that swapped into two tokens, one after the other, after
\* enabling abstraction.
C30_Witness ==
    \E c \in SplitCalls :
        /\ Len(PlanSwapTokens(calls[c].cplan)) = 2
        /\ TokensOf(calls[c].trace, "placeOrder", "ok")
              = PlanSwapTokens(calls[c].cplan)
        /\ Happened(calls[c].trace, Ev("setDexAbstraction", "ok", "", ""))
        /\ Happened(calls[c].trace, Ev("prepare", "ok", "", ""))


\* ------------------------------------------------- facade collateral (C29)
\* The facade is waiting for the router on a quote or a quoteSplit.
QuoteAtRouter == fop.pc = "router" /\ fop.op \in QuoteOps
\* The coins of the venue's answer whose total is positive.
HeldCoins(balances) ==
    {coin \in {"USDC", "USDH"} :
        \E k \in 1..Len(balances) : balances[k].coin = coin /\ balances[k].total > 0}
\* The step in which the router's answer to a quote reaches the caller.
QuoteAnswered == QuoteAtRouter /\ qpc = "done" /\ fop'.pc # "router"

\* C29: the collateral the facade hands the router for quote / quoteSplit
\* always contains USDC: it is the wallet's positive spot balances plus USDC
\* when the balances load, and exactly {USDC} without a wallet or when the
\* read fails; a failed read sends the call on to the router, and the quote
\* the router returns reaches the caller with the warning added.
C29_QuoteCollateral ==
    /\ [](QuoteAtRouter =>
            /\ "USDC" \in qcoll
            /\ (walletAddress = NoWallet) <=> (fop.spot.st = "none")
            /\ fop.spot.st \in {"none", "failed"} => qcoll = {"USDC"}
            /\ fop.spot.st = "ok" => qcoll = HeldCoins(fop.spot.balances) \cup {"USDC"})
    /\ [][(fop.pc = "collateral" /\ fop.op \in QuoteOps /\ fop' # fop)
             => (fop'.pc = "router" /\ fop'.error = "")]_vars
    /\ [][(QuoteAnswered /\ fop.spot.st = "failed")
             => IF qresult.kind = "error"
                THEN fop'.error = qresult.error
                ELSE /\ fop'.pc = "done" /\ fop'.error = ""
                     /\ fop'.result.kind = qresult.kind
                     /\ fop'.result.warnings = qresult.warnings \o <<CollateralUnavailable>>]_vars
    /\ [][(QuoteAnswered /\ fop.spot.st # "failed" /\ qresult.kind # "error")
             => fop'.result = qresult]_vars

C29_Witness ==
    /\ fop.pc = "done" /\ fop.op = "quote" /\ fop.spot.st = "failed"
    /\ fop.result.kind = "quote"
    /\ CollateralUnavailable \in SeqRange(fop.result.warnings)

\* A quoteSplit waits for the router with the collateral of a wallet that
\* holds USDC and has spent its USDH.
SpentBalanceWitness ==
    /\ QuoteAtRouter /\ fop.op = "quoteSplit" /\ fop.spot.st = "ok"
    /\ Len(fop.spot.balances) = 2 /\ qcoll = {"USDC"}

\* A quote waits for the router with the collateral of a wallet holding USDH.
HeldBalanceWitness ==
    /\ QuoteAtRouter /\ fop.op = "quote" /\ fop.spot.st = "ok"
    /\ qcoll = {"USDC", "USDH"}


\* ------------------------------------------------- completion order (C31)
\* The members of a set of positions, ascending.
RECURSIVE Ascending(_)
Ascending(S) ==
    IF S = {} THEN <<>>
    ELSE LET m == CHOOSE x \in S : \A y \in S : x <= y
         IN  <<m>> \o Ascending(S \ {m})

\* The side of the book the i-th market answered with.
AnsweredSide(i, which) ==
    IF which = "bids" THEN qfetch[i].book.bids ELSE qfetch[i].book.asks

\* What the i-th market quotes at a price on a side (0: nothing).
RECURSIVE QuotedAt(_, _)
QuotedAt(levels, px) ==
    IF levels = <<>> THEN 0
    ELSE (IF Head(levels).px = px THEN Head(levels).sz ELSE 0) + QuotedAt(Tail(levels), px)

AnsweredPrices(which) ==
    UNION {{AnsweredSide(i, which)[k].px : k \in 1..Len(AnsweredSide(i, which))} :
           i \in Responded}

\* The level of a price, made of the answers alone: the markets quoting
\* the price in the registry's order, whenever their answers came.
LevelAt(which, px) ==
    LET holders == Ascending({i \in Responded : QuotedAt(AnsweredSide(i, which), px) > 0})
        source(k) == [coin |-> qmarkets[holders[k]].coin,
                      sz |-> QuotedAt(AnsweredSide(holders[k], which), px)]
    IN  [px |-> px,
         sz |-> SumSz([k \in 1..Len(holders) |-> source(k)]),
         sources |-> [k \in 1..Len(holders) |-> source(k)]]

RECURSIVE ByPrice(_, _)
ByPrice(P, sort) ==
    IF P = {} THEN <<>>
    ELSE LET first == CHOOSE x \in P :
                          \A y \in P : IF sort = "desc" THEN x >= y ELSE x <= y
         IN  <<first>> \o ByPrice(P \ {first}, sort)

SideFromAnswers(which, sort) ==
    LET prices == ByPrice(AnsweredPrices(which), sort)
    IN  [k \in 1..Len(prices) |-> LevelAt(which, prices[k])]

\* The position of a coin in the registry's market list.
MarketPosition(coin) == CHOOSE i \in 1..Len(qmarkets) : qmarkets[i].coin = coin

InMarketOrder(sources) ==
    \A j, k \in 1..Len(sources) :
        j < k => MarketPosition(sources[j].coin) < MarketPosition(sources[k].coin)

\* C31: the aggregated book is a function of the books the markets
\* answered with and of the registry's market order, whatever the order in
\* which the concurrently issued fetches settled: each side is the side
\* made of the answers alone (the whole of it for aggregate, a prefix of it
\* when cut for an order), the snapshot list follows the market order, and
\* within each price level the sources appear in the market order.
C31_CompletionOrderFree ==
    AggregateReturned =>
        /\ IsPrefix(AggregatedBook.bids, SideFromAnswers("bids", "desc"))
        /\ IsPrefix(AggregatedBook.asks, SideFromAnswers("asks", "asc"))
        /\ qop = "aggregate" =>
              /\ AggregatedBook.bids = SideFromAnswers("bids", "desc")
              /\ AggregatedBook.asks = SideFromAnswers("asks", "asc")
        /\ Coins(AggregatedBook.marketBooks)
              = [k \in 1..Len(Ascending(Responded)) |->
                    qmarkets[Ascending(Responded)[k]].coin]
        /\ \A l \in AllLevels(AggregatedBook) : InMarketOrder(l.sources)

\* The second market answered before the first; both quote the same ask,
\* and the level lists the first market first.
C31_Witness ==
    /\ AggregateReturned
    /\ qsettled = <<2, 1>>
    /\ Responded = {1, 2}
    /\ \E l \in SeqRange(AggregatedBook.asks) :
          /\ Len(l.sources) = 2
          /\ l.sources[1].coin = qmarkets[1].coin
          /\ l.sources[2].coin = qmarkets[2].coin


\* ------------------------------------------------- the cut for an order (C32)
OrderBookReturned == AggregateReturned /\ qop = "quoteSplit"
\* The side an order walks, as returned and as the answers make it in full.
ActiveSide == IF qside = "buy" THEN AggregatedBook.asks ELSE AggregatedBook.bids
FullActiveSide ==
    IF qside = "buy" THEN SideFromAnswers("asks", "asc")
    ELSE SideFromAnswers("bids", "desc")

\* C32: aggregateForOrder(asset, side, size) with size > 0 returns as its
\* active side (asks for buy, bids for sell) the shortest prefix of the
\* fully merged, sorted side whose cumulative size is >= size, or the whole
\* side when its total depth is below size.
C32_ShortestCoveringPrefix ==
    OrderBookReturned =>
        /\ IsPrefix(ActiveSide, FullActiveSide)
        /\ IF SumSz(FullActiveSide) < qsize
           THEN ActiveSide = FullActiveSide
           ELSE /\ SumSz(ActiveSide) >= qsize
                /\ SumSz(SubSeq(ActiveSide, 1, Len(ActiveSide) - 1)) < qsize

\* A buy whose size the best merged ask level, quoted by two markets,
\* covers exactly; the second level is left out.
C32_Witness ==
    /\ OrderBookReturned
    /\ qside = "buy"
    /\ Len(ActiveSide) = 1
    /\ Len(FullActiveSide) = 2
    /\ SumSz(ActiveSide) = qsize
    /\ Len(ActiveSide[1].sources) = 2

\* The order is larger than the merged side: all of it is returned.
ShallowSideWitness ==
    /\ OrderBookReturned
    /\ Len(FullActiveSide) = 2
    /\ SumSz(FullActiveSide) < qsize
    /\ ActiveSide = FullActiveSide


\* ------------------------------------------------- the dust filter (C33, C34, C39)
\* optimize() got as far as filterDust: the walked side has levels and the
\* walk ended within the tolerance.
OptimizeLevelsWalked == IF unit.side = "buy" THEN unit.book.asks ELSE unit.book.bids
DustFiltered ==
    /\ unit.fn = "optimize"
    /\ Len(OptimizeLevelsWalked) > 0
    /\ WithinTolerance

\* The allocations handed to filterDust.
RawOfCall ==
    RawAllocations(WalkLevels(<<>>, Whole(unit.size), OptimizeLevelsWalked).fills,
                   unit.lookup)

FEq(a, b) == FSub(a, b).num = 0

\* The raw allocations that are folded: all but the largest that are under
\* minAllocationSize.
FoldedOfCall ==
    IF Len(RawOfCall) <= 1 THEN <<>>
    ELSE SelectSeq(Tail(SortBySize(RawOfCall)),
                   LAMBDA a : FLt(a.size, Whole(unit.minAllocationSize)))

\* What the folded sizes cost at the average price of the largest raw
\* allocation.
FoldedAtPrimaryPrice ==
    [k \in 1..Len(FoldedOfCall) |->
        [estimatedCost |-> FMul(FoldedOfCall[k].size,
                                SortBySize(RawOfCall)[1].estimatedAvgPrice)]]

\* C33 as stated: the sum of sizes and the sum of estimated costs over the
\* allocations that survive the dust filter equal the sums over the raw
\* allocations before filtering.
C33_DustConservesTotals ==
    DustFiltered /\ unit.result.ok =>
        /\ FEq(SumOf(unit.result.allocations, "size"), SumOf(RawOfCall, "size"))
        /\ FEq(SumOf(unit.result.allocations, "estimatedCost"),
               SumOf(RawOfCall, "estimatedCost"))

\* C33, amended: the dust filter conserves the sum of sizes; the sum of
\* estimated costs over the survivors is the sum over the raw allocations
\* with the cost of every folded allocation replaced by its size times the
\* average price of the largest raw allocation.
C33_DustConservesSizes ==
    DustFiltered /\ unit.result.ok =>
        /\ FEq(SumOf(unit.result.allocations, "size"), SumOf(RawOfCall, "size"))
        /\ FEq(FAdd(SumOf(unit.result.allocations, "estimatedCost"),
                    SumOf(FoldedOfCall, "estimatedCost")),
               FAdd(SumOf(RawOfCall, "estimatedCost"),
                    SumOf(FoldedAtPrimaryPrice, "estimatedCost")))

\* An allocation filled at a worse price than the largest one was folded:
\* the sizes still sum to the raw sum, the costs to less.
C33_Witness ==
    /\ DustFiltered /\ unit.result.ok
    /\ unit.side = "buy"
    /\ Len(FoldedOfCall) = 1
    /\ Len(unit.result.allocations) = 1
    /\ FLt(SumOf(unit.result.allocations, "estimatedCost"),
           SumOf(RawOfCall, "estimatedCost"))

\* C34: after dust filtering with minimum allocation size m, the largest
\* raw allocation survives (first, with at least its raw size) and every
\* other surviving allocation has size >= m, so whenever there is a raw
\* allocation the result has at least one allocation.
C34_LargestSurvives ==
    DustFiltered /\ Len(RawOfCall) > 0 =>
        /\ unit.result.ok
        /\ Len(unit.result.allocations) >= 1
        /\ \E r \in SeqRange(RawOfCall) :
              /\ \A q \in SeqRange(RawOfCall) : FLeq(q.size, r.size)
              /\ unit.result.allocations[1].market = r.market
              /\ FLeq(r.size, unit.result.allocations[1].size)
        /\ \A k \in 2..Len(unit.result.allocations) :
              FLeq(Whole(unit.minAllocationSize), unit.result.allocations[k].size)

\* Two raw allocations, both under the minimum: one allocation is left,
\* holding both sizes.
C34_Witness ==
    /\ DustFiltered
    /\ Len(RawOfCall) = 2
    /\ \A r \in SeqRange(RawOfCall) : FLt(r.size, Whole(unit.minAllocationSize))
    /\ Len(unit.result.allocations) = 1
    /\ FEq(unit.result.allocations[1].size, SumOf(RawOfCall, "size"))

\* The size a market quotes on the walked side of its own book.
QuotedBy(coin) == SumSz(WalkedSide(BookOfCoin(coin), unit.side))

\* C39: every allocation returned by optimize has a size no greater than
\* the total size that its own market quotes on the active side of the
\* aggregated book, also after dust redistribution.
C39_AllocationWithinQuoted ==
    OptimizeReturned =>
        \A k \in 1..Len(unit.result.allocations) :
            FLeq(unit.result.allocations[k].size,
                 Whole(QuotedBy(unit.result.allocations[k].market.coin)))

\* Before the dust filter the claim of C39 holds: no raw allocation
\* exceeds what its market quotes.
RawWithinQuoted ==
    DustFiltered =>
        \A r \in SeqRange(RawOfCall) : FLeq(r.size, Whole(QuotedBy(r.market.coin)))


\* ------------------------------------------------- builder-fee approval (C35)
\* C35: approveBuilderFee is called only by the first submission, and, once
\* that call's authorization read has answered, if and only if a builder
\* is configured and the fee authorised at the venue is strictly below
\* feeBps * 10 (0.1-bps wire units); with the builder disabled the
\* authorization is never read and approval never requested; an
\* authorised fee equal to or above that amount is not approved again.
C35_ApprovalIffBelowFee ==
    \A c \in DOMAIN calls :
        LET call == calls[c]
            approval == IssuedAt(call.trace, "approveBuilderFee") # {}
        IN  /\ builder = NoBuilder =>
                  /\ IssuedAt(call.trace, "maxBuilderFee") = {}
                  /\ ~approval
                  /\ call.authorised = NotRead
            /\ approval => builder # NoBuilder /\ call.seq = 1
            /\ call.authorised = NotRead => ~approval
            /\ call.authorised # NotRead =>
                  (approval <=> call.authorised < builder.feeBps * 10)

\* The first call found the configured fee authorised exactly, requested no
\* approval and has its receipt.
C35_Witness ==
    \E c \in DOMAIN calls :
        /\ builder # NoBuilder
        /\ calls[c].seq = 1
        /\ calls[c].authorised = builder.feeBps * 10
        /\ IssuedAt(calls[c].trace, "approveBuilderFee") = {}
        /\ calls[c].pc = "done"

\* The first call found a fee one wire unit short and requested approval.
ShortByOneWitness ==
    \E c \in DOMAIN calls :
        /\ builder # NoBuilder
        /\ calls[c].authorised = builder.feeBps * 10 - 1
        /\ Happened(calls[c].trace, Ev("approveBuilderFee", "ok", "", ""))


\* ------------------------------------------------- prepare's swaps (C36, C37)
\* The answers the venue gave to the spot orders of a prepare run.
SwapAnswers(t) ==
    {k \in 1..Len(t) : t[k].call = "placeOrder" /\ t[k].phase = "ok"}

\* C36: prepare returns success = true only if every spot swap order it
\* placed was reported filled by the venue; a swap order answered with an
\* error or a resting (unfilled) status makes prepare return failure.
C36_SuccessOnlyIfFilled ==
    \A c \in SplitCalls :
        (PrepareSettled(calls[c]) /\ calls[c].prep[1].returned
                                  /\ calls[c].prep[1].success) =>
            \A k \in SwapAnswers(calls[c].trace) : calls[c].trace[k].status = "filled"

\* When prepare returns success, every swap the venue did not report
\* filled is in the receipt with filled = 0.
UnfilledSwapsRecorded ==
    \A c \in SplitCalls :
        (PrepareSettled(calls[c]) /\ calls[c].prep[1].returned
                                  /\ calls[c].prep[1].success) =>
            /\ Len(calls[c].prep[1].swapsExecuted) = Cardinality(SwapAnswers(calls[c].trace))
            /\ \A k \in SwapAnswers(calls[c].trace) :
                  calls[c].trace[k].status # "filled" =>
                      \E s \in SeqRange(calls[c].prep[1].swapsExecuted) :
                          s.to = calls[c].trace[k].token /\ s.filled = 0

\* The token has an entry and a pair in the spot metadata the run loaded.
InSpotMeta(spotMeta, token) ==
    \E tk \in spotMeta.tokens :
        /\ tk.name = token
        /\ \E p \in 1..Len(spotMeta.universe) :
              \E j \in 1..Len(spotMeta.universe[p].tokens) :
                  spotMeta.universe[p].tokens[j] = tk.index

\* C37: prepare transfers USDC from perp to spot for a requirement only
\* when that token and its spot pair exist in the spot metadata loaded at
\* the start; for a token missing from the metadata it fails without
\* having moved any funds for that token.
C37_TransferOnlyForKnownToken ==
    \A c \in SplitCalls :
        \A k \in IssuedAt(calls[c].trace, "usdClassTransfer") :
            InSpotMeta(calls[c].spotMeta, calls[c].trace[k].token)

\* A token missing from the metadata never gets a spot order, and the run
\* that meets it fails.
UnknownTokenNeverOrdered ==
    \A c \in SplitCalls :
        /\ \A k \in IssuedAt(calls[c].trace, "placeOrder") :
              InSpotMeta(calls[c].spotMeta, calls[c].trace[k].token)
        /\ \A k \in 1..Len(calls[c].trace) :
              (/\ calls[c].trace[k].call = "l2Book"
               /\ calls[c].trace[k].phase = "ok"
               /\ ~InSpotMeta(calls[c].spotMeta, calls[c].trace[k].token))
                  => PrepareFailed(calls[c])


\* ------------------------------------------------- limit prices (C38)
\* The price of the last level a fill of size takes from.
RECURSIVE LastConsumedPx(_, _)
LastConsumedPx(levels, size) ==
    IF Len(levels) = 1 \/ Head(levels).sz >= size THEN Head(levels).px
    ELSE LastConsumedPx(Tail(levels), size - Head(levels).sz)

InMillionths(px) == px * 1000000

\* The merged levels the split takes from, and among them the prices a
\* market is a source of.
ConsumedLevels == Trim(OptimizeLevelsWalked, 0, unit.size)
ConsumedPricesOf(coin) ==
    {l.px : l \in {x \in SeqRange(ConsumedLevels) :
                      \E s \in SeqRange(x.sources) : s.coin = coin}}

NoTighter(side, price, px) ==
    IF side = "buy" THEN price >= InMillionths(px) ELSE price <= InMillionths(px)

\* C38: for every plan returned by quote and every leg returned by
\* quoteSplit, the IOC limit price is no tighter than the worst price level
\* the fill estimate consumed on that market (>= it for buys, <= it for
\* sells), so the order executed against the same book snapshot would fill
\* its whole size.
C38_LimitCoversConsumedLevels ==
    /\ unit.fn = "plan" =>
          NoTighter(unit.side, unit.result.price,
                    LastConsumedPx(WalkedSide(unit.book, unit.side), unit.size))
    /\ unit.fn = "legs" =>
          \A k \in 1..Len(unit.result) :
              \A px \in ConsumedPricesOf(unit.result[k].market.coin) :
                  NoTighter(unit.side, unit.result[k].price, px)

\* The limit of a plan is never tighter than the best level of the book.
LimitCoversBestLevel ==
    unit.fn = "plan" =>
        NoTighter(unit.side, unit.result.price, WalkedSide(unit.book, unit.side)[1].px)

\* A fill from one level only is covered by its plan's limit.
SingleLevelCovered ==
    (unit.fn = "plan" /\ WalkedSide(unit.book, unit.side)[1].sz >= unit.size) =>
        NoTighter(unit.side, unit.result.price,
                  LastConsumedPx(WalkedSide(unit.book, unit.side), unit.size))

\* ------------------------------------------------- NktkasProvider
\* Map.set and Map.delete.
MapSet(map, key, value) ==
    [x \in DOMAIN map \cup {key} |-> IF x = key THEN value ELSE map[x]]
MapDelete(map, key) == [x \in DOMAIN map \ {key} |-> map[x]]

\* An optional nSigFigs is <<>> (undefined) or <<n>>.
SigFigs == {<<>>, <<5>>}
ProviderCoins == {"ETH"}

\* `${coin}:${nSigFigs ?? "na"}`
CacheKey(coin, nSigFigs) ==
    <<coin, ":", IF nSigFigs = <<>> THEN "na" ELSE ToString(nSigFigs[1])>>

NoLevels == <<<<>>, <<>>>>
NoValue == [coin |-> "", time |-> 0, levels |-> NoLevels]

\* What the venue may answer to a book request: null, or a book.
RawBooks(coin) ==
    {<<>>,
     <<[coin |-> coin, time |-> now,
        levels |-> <<<<[px |-> 99, sz |-> 1]>>, <<[px |-> 100, sz |-> 1]>>>>]>>}

\* The cache holds an entry for the key that has not expired.
Cached(key) ==
    /\ key \in DOMAIN l2BookCache
    /\ l2BookCache[key].expiresAt > now

\* l2Book(coin, nSigFigs), from the call to the promise it returns: the
\* cached value, the request in flight for the key, or a new request that
\* is registered in l2BookInFlight.
L2BookCall(coin, nSigFigs) ==
    LET cacheKey == CacheKey(coin, nSigFigs)
        call == [key |-> cacheKey, st |-> "waiting", request |-> 0,
                 value |-> NoValue]
    IN  /\ Len(bookCalls) < MaxBookCalls
        /\ IF Cached(cacheKey)
           THEN /\ bookCalls' =
                     Append(bookCalls,
                            [call EXCEPT !.st = "returned",
                                         !.value = l2BookCache[cacheKey].value])
                /\ UNCHANGED <<l2BookInFlight, requests>>
           ELSE IF cacheKey \in DOMAIN l2BookInFlight
           THEN /\ bookCalls' =
                     Append(bookCalls,
                            [call EXCEPT !.request = l2BookInFlight[cacheKey]])
                /\ UNCHANGED <<l2BookInFlight, requests>>
           ELSE /\ requests' =
                     Append(requests,
                            [key |-> cacheKey, coin |-> coin,
                             upstream |-> "outstanding", settled |-> FALSE,
                             value |-> NoValue])
                /\ l2BookInFlight' =
                     MapSet(l2BookInFlight, cacheKey, Len(requests) + 1)
                /\ bookCalls' =
                     Append(bookCalls,
                            [call EXCEPT !.request = Len(requests) + 1])
        /\ UNCHANGED <<groups, rvars, qvars, evars, fvars, unit,
                       l2BookCache, closing, now>>

\* info.l2Book resolves with raw and the .then callback of request r runs:
\* the value is cached under the request's key.
ThenCallback(r, raw) ==
    LET value == IF raw # <<>> THEN raw[1]
                 ELSE [coin |-> requests[r].coin, time |-> now,
                       levels |-> NoLevels]
    IN  /\ requests[r].upstream = "outstanding"
        /\ l2BookCache' =
             MapSet(l2BookCache, requests[r].key,
                    [value |-> value,
                     expiresAt |-> now + DEFAULT_L2_BOOK_CACHE_TTL_MS])
        /\ requests' = [requests EXCEPT ![r].upstream = "answered",
                                        ![r].value = value]
        /\ UNCHANGED <<groups, rvars, qvars, evars, fvars, unit,
                       l2BookInFlight, bookCalls, closing, now>>

\* info.l2Book rejects: .then is skipped.
UpstreamThrow(r) ==
    /\ requests[r].upstream = "outstanding"
    /\ requests' = [requests EXCEPT ![r].upstream = "threw"]
    /\ UNCHANGED <<groups, rvars, qvars, evars, fvars, unit,
                   l2BookCache, l2BookInFlight, bookCalls, closing, now>>

\* The .finally callback of request r: the request's key leaves
\* l2BookInFlight, and the promise the callers hold settles.
FinallyCallback(r) ==
    /\ requests[r].upstream # "outstanding"
    /\ ~requests[r].settled
    /\ l2BookInFlight' = MapDelete(l2BookInFlight, requests[r].key)
    /\ requests' = [requests EXCEPT ![r].settled = TRUE]
    /\ UNCHANGED <<groups, rvars, qvars, evars, fvars, unit,
                   l2BookCache, bookCalls, closing, now>>

\* A caller that was handed request r resumes with what it settled to.
CallerResumes(c) ==
    LET r == bookCalls[c].request
    IN  /\ bookCalls[c].st = "waiting"
        /\ requests[r].settled
        /\ bookCalls' =
             [bookCalls EXCEPT
                ![c].st = IF requests[r].upstream = "answered"
                          THEN "returned" ELSE "threw",
                ![c].value = requests[r].value]
        /\ UNCHANGED <<groups, rvars, qvars, evars, fvars, unit,
                       l2BookCache, l2BookInFlight, requests, closing, now>>

\* disconnect() up to its await of wsTransport.close().
DisconnectCall ==
    /\ closing.pc = "idle"
    /\ closing' = [closing EXCEPT !.pc = "closing"]
    /\ UNCHANGED <<groups, rvars, qvars, evars, fvars, unit,
                   l2BookCache, l2BookInFlight, requests, bookCalls, now>>

\* close() resolved: both maps are cleared.
DisconnectClear ==
    /\ closing.pc = "closing"
    /\ l2BookCache' = EmptyMap
    /\ l2BookInFlight' = EmptyMap
    /\ closing' = [pc |-> "idle", cleared |-> TRUE]
    /\ UNCHANGED <<groups, rvars, qvars, evars, fvars, unit,
                   requests, bookCalls, now>>

\* close() rejected: disconnect() throws before it clears anything.
DisconnectThrow ==
    /\ closing.pc = "closing"
    /\ closing' = [closing EXCEPT !.pc = "idle"]
    /\ UNCHANGED <<groups, rvars, qvars, evars, fvars, unit,
                   l2BookCache, l2BookInFlight, requests, bookCalls, now>>

\* Time passes: half the cache's time to live.
ClockTick ==
    /\ now < MaxTicks * (DEFAULT_L2_BOOK_CACHE_TTL_MS \div 2)
    /\ now' = now + DEFAULT_L2_BOOK_CACHE_TTL_MS \div 2
    /\ UNCHANGED <<groups, rvars, qvars, evars, fvars, unit,
                   l2BookCache, l2BookInFlight, requests, bookCalls, closing>>

InitProvider ==
    /\ groups = <<>>
    /\ RIdle
    /\ QIdle
    /\ EIdle
    /\ FIdle
    /\ UIdle
    /\ PIdle

CallL2Book ==
    /\ Len(bookCalls) < MaxBookCalls
    /\ \E coin \in ProviderCoins, nSigFigs \in SigFigs :
          L2BookCall(coin, nSigFigs)

UpstreamAnswers ==
    \E r \in 1..Len(requests) :
        /\ requests[r].upstream = "outstanding"
        /\ \E raw \in RawBooks(requests[r].coin) : ThenCallback(r, raw)

UpstreamThrows == \E r \in 1..Len(requests) : UpstreamThrow(r)
RequestSettles == \E r \in 1..Len(requests) : FinallyCallback(r)
CallerReturns == \E c \in 1..Len(bookCalls) : CallerResumes(c)

NextProvider ==
    \/ CallL2Book
    \/ UpstreamAnswers
    \/ UpstreamThrows
    \/ RequestSettles
    \/ CallerReturns
    \/ DisconnectCall
    \/ DisconnectClear
    \/ DisconnectThrow
    \/ ClockTick

SpecProvider == InitProvider /\ [][NextProvider]_vars

\* ------------------------------------------------- one request per key (C40)
\* The upstream requests for a key that the venue has not answered yet.
Outstanding(key) ==
    {r \in 1..Len(requests) :
        requests[r].key = key /\ requests[r].upstream = "outstanding"}

\* The callers that are waiting for a request that has not settled.
Waiting(key) ==
    {c \in 1..Len(bookCalls) :
        /\ bookCalls[c].key = key
        /\ bookCalls[c].st = "waiting"
        /\ ~requests[bookCalls[c].request].settled}

ProviderKeys == {CacheKey(coin, nSigFigs) : coin \in ProviderCoins, nSigFigs \in SigFigs}

SingleFlight ==
    /\ \A key \in ProviderKeys : Cardinality(Outstanding(key)) <= 1
    /\ \A key \in ProviderKeys : \A c, d \in Waiting(key) :
          bookCalls[c].request = bookCalls[d].request
    /\ \A c \in 1..Len(bookCalls) :
          bookCalls[c].st = "returned" /\ bookCalls[c].request # 0
              => bookCalls[c].value = requests[bookCalls[c].request].value

\* C40: whatever the interleaving of l2Book calls and disconnect(), at most
\* one upstream book request per (coin, nSigFigs) key is outstanding at any
\* time, the callers waiting for the same key at the same time hold that
\* one request, and a caller returns what its request resolved to.
C40_SingleFlight == SingleFlight

\* As long as no disconnect() has cleared the maps, the requests are
\* single-flight.
SingleFlightUntilCleared == ~closing.cleared => SingleFlight

\* Callers share one request: two callers were handed the same request and
\* returned its value.
SharedRequestWitness ==
    \E c, d \in 1..Len(bookCalls) :
        /\ c # d
        /\ bookCalls[c].request # 0
        /\ bookCalls[c].request = bookCalls[d].request
        /\ bookCalls[c].st = "returned"
        /\ bookCalls[d].st = "returned"

====
